---- MODULE Spec2Model ----
(***************************************************************************)
(* Model of korthout/backport-action: the orchestrator Backport.run        *)
(* (src/src/backport.ts) with the git gateway and the GitHub client as     *)
(* collaborators whose calls succeed or fail nondeterministically.         *)
(*                                                                         *)
(* One behaviour is one run of the action.  Every await of run() is one    *)
(* action; the catch handlers that run synchronously after a rejected      *)
(* await belong to the action of that await.                               *)
(***************************************************************************)
EXTENDS Naturals, Integers, Sequences, FiniteSets, TLC

(***************************************************************************)
(* Bounds                                                                  *)
(***************************************************************************)
\* longest resolved list of target branches
MaxTargets == 2
\* largest number of commits of the source pull request
MaxCommits == 2
\* longest label given to findTargetBranches on its own
MaxLabelLen == 3
\* longest list of labels given to findTargetBranches
MaxLabels == 2
\* longest target_branches input
MaxLen == 4

\* lines of a dashboard body after the first
MaxLines == 2

\* entries of a dashboard
MaxEntries == 2

\* backports of an entry of a dashboard
MaxLinks == 1

\* the number of runs of createOrUpdateDashboard
MaxRuns == 3

\* the number of parents of a merge commit
MaxParents == 2

(***************************************************************************)
(* Program constants                                                       *)
(***************************************************************************)
\* exit status of git fetch that is classified as "ref not found"
RefNotFoundExit == 128
\* exit status of git cherry-pick that is classified as a conflict
ConflictExit == 1
\* status of the createPR rejection that may mean "already exists"
UnprocessableStatus == 422

(***************************************************************************)
(* Input domains                                                           *)
(***************************************************************************)
\* the branch names targets are drawn from, in label order
AllBranches == <<"release-1", "release-2", "release-3", "release-4">>

\* exit statuses a git command can end with: success, conflict/generic
\* failure, ref not found
ExitCodes == {0, 1, RefNotFoundExit}

\* results of an awaited createComment: resolved, or rejected by the API
CommentOutcomes == {"ok", "RequestError"}

\* results of an API or git call that either resolves or throws; a throw is
\* a RequestError, another Error, or a value that is not an Error
CallOutcomes == {"ok", "RequestError", "Error", "NonError"}

\* the metadata propagation steps in the order run() performs them
MetaSteps == <<"setMilestone", "addAssignees", "requestReviewers", "labelPR", "addAuthorAsAssignee">>

\* which propagation steps apply in a run (configuration flag set and the
\* source pull request has something to copy)
MetaConfigs == {{}, {"setMilestone"}, {"labelPR", "addAuthorAsAssignee"},
                {"setMilestone", "addAssignees", "requestReviewers", "labelPR", "addAuthorAsAssignee"}}

\* the results createPR can have
CreatePRResults ==
  {[kind |-> "ok", status |-> 201, errors |-> "none"],
   [kind |-> "RequestError", status |-> UnprocessableStatus, errors |-> "exists"],
   [kind |-> "RequestError", status |-> UnprocessableStatus, errors |-> "other"],
   [kind |-> "RequestError", status |-> UnprocessableStatus, errors |-> "missing"],
   [kind |-> "RequestError", status |-> 403, errors |-> "missing"],
   [kind |-> "RequestError", status |-> 403, errors |-> "exists"],
   [kind |-> "Error", status |-> 0, errors |-> "none"],
   [kind |-> "NonError", status |-> 0, errors |-> "none"]}

Range(s) == {s[i] : i \in 1..Len(s)}

VARIABLES
  config,                     \* Config of the run and the snapshot of the source pull request
  pc,                         \* the await run() is suspended at
  idx,                        \* index of the target of the current loop iteration
  strategy,                   \* what mergeStrategy returned, while the switch on it runs
  commitShasToCherryPick,     \* the commits handed to cherryPick
  mergeCommitShas,            \* the merge commits findMergeCommits found among them
  uncommitedShas,             \* result of cherryPick for the current target
  thrown,                     \* the Error cherryPick threw for the current target
  new_pr,                     \* number of the pull request created for the current target, 0 if none
  successByTarget,            \* Map<string, boolean> in insertion order
  createdPullRequestNumbers,  \* Array<number>
  comments,                   \* createComment calls since the current loop iteration began
  gitLog,                     \* git commands since the current loop iteration began
  pulls,                      \* createPR calls of the current loop iteration
  metaLog,                    \* metadata propagation calls of the current loop iteration
  outputs,                    \* core.setOutput values
  failed,                     \* core.setFailed: "none", "message" or "unexpected"
  createdPulls,               \* every pull request a createPR of the run created, in order
  args,                       \* arguments of a call of an exported function outside of run()
  ret,                        \* what that call returned
  issues,                     \* the issues of the repository, in the order of creation
  pullStates,                 \* state of each backport pull request ("open" or "closed")
  runs                        \* the calls of createOrUpdateDashboard in progress, each with its locals

vars == <<config, pc, idx, strategy, commitShasToCherryPick, mergeCommitShas, uncommitedShas, thrown, new_pr,
          successByTarget, createdPullRequestNumbers, comments, gitLog, pulls,
          metaLog, outputs, failed, createdPulls, args, ret, issues, pullStates, runs>>

\* the state of the dashboard
dashVars == <<issues, pullStates, runs>>

(***************************************************************************)
(* Values                                                                  *)
(***************************************************************************)
\* the null result of cherryPick
NullShas == [isNull |-> TRUE, shas |-> <<>>]

\* a non-null result of cherryPick
SomeShas(s) == [isNull |-> FALSE, shas |-> s]

\* no Error was thrown
NoError == [command |-> "none", shas |-> <<>>, exitCode |-> 0]

\* an output that core.setOutput was never called for
Unset == [set |-> FALSE]

\* no function was called outside of run()
NoCall == [fn |-> "none"]

\* a call that has not returned
NoReturn == [done |-> FALSE, value |-> <<>>, fromLabels |-> <<>>, configured |-> <<>>]

\* the commits of a pull request with n commits, oldest first
PullCommits(n) == [i \in 1..n |-> i]

\* the sha of the merge commit of the source pull request
MergeCommitSha == 0

Configs ==
  [pull_number : {123},
   merged : BOOLEAN,
   commits : 1..MaxCommits,
   target_branches : {SubSeq(AllBranches, 1, n) : n \in 0..MaxTargets},
   cherry_picking : {"auto", "pull_request_head"},
   merge_commits : {"fail", "skip"},
   conflict_resolution : {"fail", "draft_commit_conflicts"},
   downstream_repo : BOOLEAN,
   downstream_owner : BOOLEAN,
   meta : MetaConfigs]

\* run() has not awaited anything yet
NotStarted ==
  /\ pc = "getPullRequest"
  /\ idx = 0
  /\ strategy = "none"
  /\ commitShasToCherryPick = <<>>
  /\ mergeCommitShas = {}
  /\ uncommitedShas = NullShas
  /\ thrown = NoError
  /\ new_pr = 0
  /\ successByTarget = <<>>
  /\ createdPullRequestNumbers = <<>>
  /\ comments = <<>>
  /\ gitLog = <<>>
  /\ pulls = <<>>
  /\ metaLog = <<>>
  /\ outputs = [was_successful |-> Unset, was_successful_by_target |-> Unset,
                created_pull_numbers |-> Unset]
  /\ failed = "none"
  /\ createdPulls = <<>>

\* no dashboard is kept
NoDashboard ==
  /\ issues = <<>>
  /\ pullStates = <<>>
  /\ runs = <<>>

Init ==
  /\ config \in Configs
  /\ NotStarted
  /\ args = NoCall
  /\ ret = NoReturn
  /\ NoDashboard

(***************************************************************************)
(* Helpers of Backport.run                                                 *)
(***************************************************************************)
\* getRemote(): the remote that targets are fetched from and pushed to
getRemote == IF config.downstream_repo THEN "downstream" ELSE "origin"

\* this.github.getRepo().owner
workflowOwner == "workflow owner"

\* payload.repository?.name ?? this.github.getRepo().repo
workflowRepo == "workflow repo"

\* an owner that downstream_owner sets on its own
ownerMut == IF config.downstream_owner THEN "downstream_owner" ELSE workflowOwner

\* owner: downstream_owner when a downstream repository is used and the
\* owner is defined, the owner of the workflow otherwise
owner == IF config.downstream_repo /\ config.downstream_owner THEN "downstream_owner" ELSE workflowOwner

\* repo: downstream_repo when defined, the repository of the workflow otherwise
repo == IF config.downstream_repo THEN "downstream_repo" ELSE workflowRepo

\* the target of the current loop iteration
target == config.target_branches[idx]

\* branch name of the backport of the source pull request to target t
\* (the default template backport-${pull_number}-to-${target_branch})
branchname(t) == [type |-> "backport", name |-> t]

\* the ref of a target branch
BranchRef(t) == [type |-> "branch", name |-> t]

\* refs/pull/${pull_number}/head
PullHeadRef == [type |-> "pull", name |-> "head"]

\* a range of commits given to git log or git rev-list
RangeRef == [type |-> "range", name |-> "commits"]

\* the url of the downstream repository given to git remote add
RemoteRef == [type |-> "remote", name |-> "downstream"]

\* +${merge_commit_sha}:refs/remotes/origin/${merge_commit_sha}
MergeCommitRef == [type |-> "sha", name |-> "merge_commit_sha"]

\* Map.set: overwrite the value of an existing key in place, otherwise
\* append the key
MapSet(m, k, v) ==
  IF \E i \in 1..Len(m) : m[i].target = k
    THEN [i \in 1..Len(m) |-> IF m[i].target = k THEN [target |-> k, result |-> v] ELSE m[i]]
    ELSE Append(m, [target |-> k, result |-> v])

\* Map.has
MapHas(m, k) == \E i \in 1..Len(m) : m[i].target = k

\* Map.get of a key the map has
MapGet(m, k) == LET i == CHOOSE j \in 1..Len(m) : m[j].target = k IN m[i].result

\* a createComment call: the issue it is posted on, which message it carries,
\* for which loop iteration, whether run() awaits it, how the call settles,
\* the repository of the issue and the exit status the message reports (0
\* when it reports none)
Comment(issue, kind, i, awaited, result) ==
  [issue |-> issue, kind |-> kind, idx |-> i, awaited |-> awaited, result |-> result,
   owner |-> workflowOwner, repo |-> workflowRepo, exitCode |-> 0]

\* a git command of the gateway
GitCall(op, ref, remote, exit) == [op |-> op, ref |-> ref, remote |-> remote, idx |-> idx, exit |-> exit]

\* how an awaited createComment call ended
Settled(c) == IF c = "ok" THEN "ok" ELSE "rejected"

\* a comment on the source pull request that run() awaits
OriginComment(kind, c) == Comment(config.pull_number, kind, idx, TRUE, Settled(c))

\* the top-level catch of run(): core.setFailed with the message of an Error,
\* or with a fixed text for any other thrown value
RunCatch(err) ==
  /\ failed' = IF err = "NonError" THEN "unexpected" ELSE "message"
  /\ pc' = "done"
  /\ idx' = idx
  /\ uncommitedShas' = uncommitedShas
  /\ new_pr' = new_pr

\* the state a loop iteration starts in: the next target, or the end of the
\* loop when the list is exhausted
Continue ==
  /\ pc' = IF idx + 1 > Len(config.target_branches) THEN "createOutput" ELSE "fetchTarget"
  /\ idx' = idx + 1
  /\ uncommitedShas' = NullShas
  /\ new_pr' = 0
  /\ failed' = failed

\* run() stays within the current loop iteration and awaits the next call,
\* with the given values of its block-scoped variables
Step(next, shas, pr) ==
  /\ pc' = next
  /\ idx' = idx
  /\ uncommitedShas' = shas
  /\ new_pr' = pr
  /\ failed' = failed

\* run() awaits the next call, or returns (next = "done")
Goto(next) == Step(next, uncommitedShas, new_pr)

(***************************************************************************)
(* Before the target loop                                                  *)
(***************************************************************************)
\* const mainpr = await this.github.getPullRequest(pull_number)
GetPullRequest ==
  /\ pc = "getPullRequest"
  /\ \E out \in {"ok", "RequestError"} :
       IF out = "ok"
         THEN Goto("isMerged")
         ELSE RunCatch(out)
  /\ UNCHANGED <<dashVars, args, ret, strategy, mergeCommitShas, thrown, config, commitShasToCherryPick, successByTarget,
                 createdPullRequestNumbers, comments, gitLog, pulls, metaLog, outputs, createdPulls>>

\* the results isMerged can have for the source pull request
isMergedResults == {IF config.merged THEN "merged" ELSE "notMerged", "RequestError"}

\* CheckMerged without the return after the comment
CheckMergedMut ==
  /\ pc = "isMerged"
  /\ \E out \in isMergedResults :
       CASE out = "merged" ->
              /\ Goto("findTargetBranches")
              /\ UNCHANGED comments
         [] out = "notMerged" ->
              /\ comments' = Append(comments,
                               Comment(config.pull_number, "notMerged", 0, FALSE, "pending"))
              /\ Goto("findTargetBranches")
         [] OTHER ->
              /\ RunCatch(out)
              /\ UNCHANGED comments
  /\ UNCHANGED <<dashVars, args, ret, strategy, mergeCommitShas, thrown, config, commitShasToCherryPick, successByTarget,
                 createdPullRequestNumbers, gitLog, pulls, metaLog, outputs, createdPulls>>

\* if (!(await this.github.isMerged(mainpr))) { createComment(..); return; }
\* The comment is not awaited: the call is made and run() returns.
CheckMerged ==
  /\ pc = "isMerged"
  /\ \E out \in isMergedResults :
       CASE out = "merged" ->
              /\ Goto("findTargetBranches")
              /\ UNCHANGED comments
         [] out = "notMerged" ->
              /\ comments' = Append(comments,
                               Comment(config.pull_number, "notMerged", 0, FALSE, "pending"))
              /\ Goto("done")
         [] OTHER ->
              /\ RunCatch(out)
              /\ UNCHANGED comments
  /\ UNCHANGED <<dashVars, args, ret, strategy, mergeCommitShas, thrown, config, commitShasToCherryPick, successByTarget,
                 createdPullRequestNumbers, gitLog, pulls, metaLog, outputs, createdPulls>>

\* FindTargets reporting the empty target list in a comment
FindTargetsMut ==
  /\ pc = "findTargetBranches"
  /\ IF Len(config.target_branches) = 0
       THEN /\ comments' = Append(comments,
                             Comment(config.pull_number, "nothingToBackport", 0, FALSE, "pending"))
            /\ Goto("done")
       ELSE /\ Goto("fetchPull")
            /\ UNCHANGED comments
  /\ UNCHANGED <<dashVars, args, ret, strategy, mergeCommitShas, thrown, config, commitShasToCherryPick, successByTarget,
                 createdPullRequestNumbers, gitLog, pulls, metaLog, outputs, createdPulls>>

\* const target_branches = this.findTargetBranches(mainpr, this.config);
\* if (target_branches.length === 0) return;
FindTargets ==
  /\ pc = "findTargetBranches"
  /\ IF Len(config.target_branches) = 0
       THEN Goto("done")
       ELSE Goto("fetchPull")
  /\ UNCHANGED <<dashVars, args, ret, strategy, mergeCommitShas, thrown, config, commitShasToCherryPick, successByTarget,
                 createdPullRequestNumbers, comments, gitLog, pulls, metaLog, outputs, createdPulls>>

\* Git.fetch that throws GitRefNotFoundError for every non-zero exit status
FetchResultNotFound(exit) == IF exit # 0 THEN "GitRefNotFoundError" ELSE "ok"

\* Git.fetch that knows no GitRefNotFoundError
FetchResultMut(exit) == IF exit # 0 THEN "Error" ELSE "ok"

\* Git.fetch: exit status 0 resolves, 128 throws GitRefNotFoundError, any
\* other status throws an Error
FetchResult(exit) ==
  IF exit = RefNotFoundExit THEN "GitRefNotFoundError"
  ELSE IF exit # 0 THEN "Error"
  ELSE "ok"

\* await this.git.fetch(`refs/pull/${pull_number}/head`, pwd, mainpr.commits + 1)
FetchPull ==
  /\ pc = "fetchPull"
  /\ \E exit \in ExitCodes :
       /\ gitLog' = Append(gitLog, GitCall("fetch", PullHeadRef, "origin", exit))
       /\ IF FetchResult(exit) = "ok"
            THEN Goto("getCommits")
            ELSE RunCatch(FetchResult(exit))
  /\ UNCHANGED <<dashVars, args, ret, strategy, mergeCommitShas, thrown, config, commitShasToCherryPick, successByTarget,
                 createdPullRequestNumbers, comments, pulls, metaLog, outputs, createdPulls>>

\* const commitShas = await this.github.getCommits(mainpr); with
\* cherry_picking other than "auto" these are the commits to cherry-pick
GetCommits ==
  /\ pc = "getCommits"
  /\ \E out \in {"ok", "RequestError"} :
       IF out = "ok"
         THEN /\ commitShasToCherryPick' = PullCommits(config.commits)
              /\ Goto(IF config.cherry_picking = "auto" THEN "mergeStrategy" ELSE "findMergeCommits")
             
         ELSE /\ RunCatch(out)
              /\ UNCHANGED commitShasToCherryPick
  /\ UNCHANGED <<dashVars, args, ret, strategy, mergeCommitShas, thrown, config, successByTarget, createdPullRequestNumbers, comments,
                 gitLog, pulls, metaLog, outputs, createdPulls>>

\* a mergeStrategy that looks at the commit count before the parents
mergeStrategyMut(hasSha, parents, commits, fp, mb) ==
  IF ~hasSha THEN "unknown"
  ELSE IF commits = 1 THEN "squashed"
  ELSE IF parents > 1 THEN "mergecommit"
  ELSE IF parents = 0 THEN "TypeError"
  ELSE IF fp /\ mb THEN "rebased"
  ELSE IF ~fp /\ mb THEN "squashed"
  ELSE "unknown"

\* Github.mergeStrategy: hasSha is merge_commit_sha != null, parents the
\* number of parents of the merge commit, commits the commit count of the
\* pull request, fp and mb whether the first parent and the merge commit are
\* associated with the pull request.  parents[0].sha of an empty parent list
\* throws a TypeError.
mergeStrategy(hasSha, parents, commits, fp, mb) ==
  IF ~hasSha THEN "unknown"
  ELSE IF parents > 1 THEN "mergecommit"
  ELSE IF commits = 1 THEN "squashed"
  ELSE IF parents = 0 THEN "TypeError"
  ELSE IF fp /\ mb THEN "rebased"
  ELSE IF ~fp /\ mb THEN "squashed"
  ELSE "unknown"

\* a git log that lists the newest commit first
findCommitsInRangeMut(sha, n) == [i \in 1..n |-> sha - (i - 1)]

\* Git.findCommitsInRange of `${sha}~${n}..${sha}`: the n commits ending at
\* sha, oldest first (git log --reverse).  A commit is a number, the parent
\* of a commit the number before it.
findCommitsInRange(sha, n) == [i \in 1..n |-> sha - (n - i)]

\* The switch on the merge strategy under cherry_picking = "auto": squashed
\* and rebased fetch the merge commit first; squashed picks the merge commit,
\* rebased the range ending at it, everything else the commits of the pull
\* request.
MergeStrategyStep ==
  /\ pc = "mergeStrategy"
  /\ \E hasSha \in BOOLEAN, parents \in 0..2, fp \in BOOLEAN, mb \in BOOLEAN,
        api \in {"ok", "RequestError"}, exit \in ExitCodes, log \in {"ok", "Error"} :
       LET detected == mergeStrategy(hasSha, parents, config.commits, fp, mb)
           fetched == Append(gitLog, GitCall("fetch", MergeCommitRef, "origin", exit))
       IN
       /\ strategy' = IF (api # "ok" /\ hasSha) \/ detected = "TypeError" THEN "none" ELSE detected
       /\ CASE api # "ok" /\ hasSha ->
                  /\ RunCatch(api)
                  /\ UNCHANGED <<commitShasToCherryPick, gitLog>>
             [] api = "ok" /\ detected = "TypeError" ->
                  /\ RunCatch("Error")
                  /\ UNCHANGED <<commitShasToCherryPick, gitLog>>
             [] api = "ok" /\ detected = "squashed" ->
                  /\ gitLog' = fetched
                  /\ IF FetchResult(exit) = "ok"
                       THEN /\ commitShasToCherryPick' = <<MergeCommitSha>>
                            /\ Goto("findMergeCommits")
                           
                       ELSE /\ RunCatch(FetchResult(exit))
                            /\ UNCHANGED commitShasToCherryPick
             [] api = "ok" /\ detected = "rebased" ->
                  /\ gitLog' = IF FetchResult(exit) = "ok"
                                 THEN Append(fetched, GitCall("log", RangeRef, "origin",
                                                              IF log = "ok" THEN 0 ELSE 1))
                                 ELSE fetched
                  /\ IF FetchResult(exit) = "ok" /\ log = "ok"
                       THEN /\ commitShasToCherryPick' = findCommitsInRange(MergeCommitSha, config.commits)
                            /\ Goto("findMergeCommits")
                           
                       ELSE /\ RunCatch(IF FetchResult(exit) = "ok" THEN "Error" ELSE FetchResult(exit))
                            /\ UNCHANGED commitShasToCherryPick
             [] OTHER ->
                  /\ api = "ok" \/ ~hasSha
                  /\ detected \in {"mergecommit", "unknown"}
                  /\ Goto("findMergeCommits")
                  /\ UNCHANGED <<commitShasToCherryPick, gitLog>>
  /\ UNCHANGED <<dashVars, args, ret, mergeCommitShas, thrown, config, successByTarget, createdPullRequestNumbers, comments,
                 pulls, metaLog, outputs, createdPulls>>

\* a filter that keeps the merge commits
nonMergeCommitShasMut(shas, merges) == shas

\* the commits of shas that are not in merges, in the order of shas
\* (commitShasToCherryPick.filter(sha => !mergeCommitShas.includes(sha)))
nonMergeCommitShas(shas, merges) ==
  LET F[i \in 0..Len(shas)] ==
        IF i = 0 THEN <<>>
        ELSE IF shas[i] \in merges THEN F[i - 1] ELSE Append(F[i - 1], shas[i])
  IN  F[Len(shas)]

\* const mergeCommitShas = await this.git.findMergeCommits(..); under
\* merge_commits = "fail" any merge commit ends the run with one un-awaited
\* comment, under "skip" the merge commits are filtered out.  Then the
\* downstream remote is added when configured, and the loop is entered.
FindMergeCommits ==
  /\ pc = "findMergeCommits"
  /\ \E out \in {"ok", "Error"}, merges \in SUBSET Range(commitShasToCherryPick),
        remote \in {"ok", "Error"} :
       LET revlist == Append(gitLog, GitCall("rev-list", RangeRef, "origin", IF out = "ok" THEN 0 ELSE 1))
       IN
       /\ mergeCommitShas' = IF out = "ok" THEN merges ELSE {}
       /\ CASE out # "ok" ->
                 /\ gitLog' = revlist
                 /\ RunCatch(out)
                 /\ UNCHANGED <<commitShasToCherryPick, comments>>
            [] out = "ok" /\ merges # {} /\ config.merge_commits = "fail" ->
                 /\ gitLog' = revlist
                 /\ comments' = Append(comments,
                                  Comment(config.pull_number, "mergeCommits", 0, FALSE, "pending"))
                 /\ Goto("done")
                 /\ UNCHANGED commitShasToCherryPick
            [] OTHER ->
                 /\ commitShasToCherryPick' =
                      IF merges # {} /\ config.merge_commits = "skip"
                        THEN nonMergeCommitShas(commitShasToCherryPick, merges)
                        ELSE commitShasToCherryPick
                 /\ UNCHANGED comments
                 /\ IF config.downstream_repo
                      THEN /\ gitLog' = Append(revlist, GitCall("remote add", RemoteRef, "downstream",
                                                                IF remote = "ok" THEN 0 ELSE 1))
                           /\ IF remote = "ok"
                                THEN Continue
                                ELSE RunCatch(remote)
                      ELSE /\ gitLog' = revlist
                           /\ Continue
  /\ strategy' = "none"
  /\ UNCHANGED <<dashVars, args, ret, thrown, config, successByTarget, createdPullRequestNumbers,
                 pulls, metaLog, outputs, createdPulls>>

(***************************************************************************)
(* The target loop                                                         *)
(***************************************************************************)
\* The catch clause of the per-target try: an Error marks the target failed
\* and is reported in a comment on the source pull request, any other thrown
\* value is thrown on.  sbt and cms are the map and the comments at the
\* throw; c is how the createComment of the clause ends.  A rejection of
\* that createComment leaves the loop.
TargetCatch(err, sbt, cms, c) ==
  IF err = "NonError"
    THEN /\ successByTarget' = sbt
         /\ comments' = cms
         /\ RunCatch(err)
    ELSE /\ successByTarget' = MapSet(sbt, target, FALSE)
         /\ comments' = Append(cms, OriginComment("errorMessage", c))
         /\ IF c = "ok" THEN Continue ELSE RunCatch(c)

\* The failure exits inside the per-target try: mark the target failed,
\* await the comment with the composed message, continue with the next
\* target.  A rejected createComment is thrown into the per-target catch.
FailTargetWith(comment, c1, c2) ==
  LET sbt == MapSet(successByTarget, target, FALSE)
      cms == Append(comments, comment)
  IN  IF c1 = "ok"
        THEN /\ successByTarget' = sbt
             /\ comments' = cms
             /\ Continue
        ELSE TargetCatch(c1, sbt, cms, c2)

\* a failure exit whose message reports no exit status
FailTarget(kind, c1, c2) == FailTargetWith(OriginComment(kind, c1), c1, c2)

\* await this.git.fetch(target, pwd, 1, this.getRemote()) with its own catch
\* outside the per-target try: GitRefNotFoundError marks the target failed,
\* comments and continues; any other error is thrown on to the top level.
\* The logs of calls start anew with each loop iteration.
FetchTarget ==
  /\ pc = "fetchTarget"
  /\ \E exit \in ExitCodes, c \in CommentOutcomes :
       /\ gitLog' = <<GitCall("fetch", BranchRef(target), getRemote, exit)>>
       /\ CASE FetchResult(exit) = "ok" ->
                 /\ Goto("checkout")
                 /\ comments' = <<>>
                 /\ UNCHANGED successByTarget
            [] FetchResult(exit) = "GitRefNotFoundError" ->
                 /\ successByTarget' = MapSet(successByTarget, target, FALSE)
                 /\ comments' = <<OriginComment("fetchTargetFailure", c)>>
                 /\ IF c = "ok" THEN Continue ELSE RunCatch(c)
            [] OTHER ->
                 /\ RunCatch(FetchResult(exit))
                 /\ comments' = <<>>
                 /\ UNCHANGED successByTarget
  /\ pulls' = <<>>
  /\ metaLog' = <<>>
  /\ thrown' = NoError
  /\ UNCHANGED <<dashVars, args, ret, strategy, mergeCommitShas, config, commitShasToCherryPick, createdPullRequestNumbers,
                 outputs, createdPulls>>

\* await this.git.checkout(branchname, `${remote}/${target}`, pwd)
Checkout ==
  /\ pc = "checkout"
  /\ \E exit \in {0, 1}, c1 \in CommentOutcomes, c2 \in CommentOutcomes :
       /\ gitLog' = Append(gitLog, GitCall("switch", branchname(target), getRemote, exit))
       /\ IF exit = 0
            THEN /\ Goto("cherryPick")
                 /\ UNCHANGED <<successByTarget, comments>>
            ELSE FailTarget("checkoutFailure", c1, c2)
  /\ UNCHANGED <<dashVars, args, ret, strategy, mergeCommitShas, thrown, config, commitShasToCherryPick, createdPullRequestNumbers,
                 pulls, metaLog, outputs, createdPulls>>

\* the commits given to git cherry-pick
CommitsRef == [type |-> "commits", name |-> "commitShasToCherryPick"]

\* the git commands a cherryPick ran, as gateway calls
GitCalls(calls) == [i \in 1..Len(calls) |-> GitCall(calls[i][1], CommitsRef, "none", calls[i][2])]

\* the Error of abortCherryPickAndThrow:
\* 'git cherry-pick -x ${commitShas}' failed with exit code ${exitCode}
CherryPickError(shas, exitCode) == [command |-> "cherry-pick -x", shas |-> shas, exitCode |-> exitCode]

\* a cherryPickOneByOne that goes on with the next commit after a conflict
RECURSIVE cherryPickOneByOneMut(_, _, _, _)
cherryPickOneByOneMut(shas, codes, i, calls) ==
  IF i > Len(shas)
    THEN [result |-> "null", shas |-> <<>>, calls |-> calls, error |-> NoError]
  ELSE IF codes[i] = 0
    THEN cherryPickOneByOneMut(shas, codes, i + 1, Append(calls, <<"cherry-pick", 0>>))
  ELSE IF codes[i] = ConflictExit
    THEN cherryPickOneByOneMut(shas, codes, i + 1,
           calls \o <<(<<"cherry-pick", codes[i]>>), (<<"cherry-pick --abort", 0>>)>>)
  ELSE [result |-> "throw", shas |-> <<>>,
        calls |-> calls \o <<(<<"cherry-pick", codes[i]>>), (<<"cherry-pick --abort", 0>>)>>,
        error |-> CherryPickError(<<shas[i]>>, codes[i])]

\* Git.cherryPick with allowPartialCherryPick, from the i-th commit on: the
\* commits are picked one by one and each picked commit is taken off
\* uncommitedShas; a conflict (exit status 1) aborts the conflicting
\* cherry-pick and returns the commits from the conflicting one on; any other
\* failure aborts and throws.
RECURSIVE cherryPickOneByOne(_, _, _, _)
cherryPickOneByOne(shas, codes, i, calls) ==
  IF i > Len(shas)
    THEN [result |-> "null", shas |-> <<>>, calls |-> calls, error |-> NoError]
  ELSE IF codes[i] = 0
    THEN cherryPickOneByOne(shas, codes, i + 1, Append(calls, <<"cherry-pick", 0>>))
  ELSE IF codes[i] = ConflictExit
    THEN [result |-> "shas", shas |-> SubSeq(shas, i, Len(shas)),
          calls |-> calls \o <<(<<"cherry-pick", codes[i]>>), (<<"cherry-pick --abort", 0>>)>>,
          error |-> NoError]
  ELSE [result |-> "throw", shas |-> <<>>,
        calls |-> calls \o <<(<<"cherry-pick", codes[i]>>), (<<"cherry-pick --abort", 0>>)>>,
        error |-> CherryPickError(<<shas[i]>>, codes[i])]

\* Git.cherryPick without the abort of a failed cherry-pick
cherryPickMut(shas, conflictResolution, batch, codes) ==
  IF conflictResolution = "fail"
    THEN IF batch # 0
           THEN [result |-> "throw", shas |-> <<>>, calls |-> <<(<<"cherry-pick", batch>>)>>,
                 error |-> CherryPickError(shas, batch)]
           ELSE [result |-> "null", shas |-> <<>>, calls |-> <<(<<"cherry-pick", 0>>)>>,
                 error |-> NoError]
    ELSE cherryPickOneByOne(shas, codes, 1, <<>>)

\* Git.cherryPick: without partial cherry-picking (the policy "fail") all
\* commits are picked in one command whose non-zero exit status aborts and
\* throws an Error naming the command and the status; with partial
\* cherry-picking (the policy "draft_commit_conflicts") the commits are
\* picked one by one.  The result is null, the remaining shas, or a thrown
\* Error.
cherryPick(shas, conflictResolution, batch, codes) ==
  IF conflictResolution = "fail"
    THEN IF batch # 0
           THEN [result |-> "throw", shas |-> <<>>,
                 calls |-> <<(<<"cherry-pick", batch>>), (<<"cherry-pick --abort", 0>>)>>,
                 error |-> CherryPickError(shas, batch)]
           ELSE [result |-> "null", shas |-> <<>>, calls |-> <<(<<"cherry-pick", 0>>)>>,
                 error |-> NoError]
    ELSE cherryPickOneByOne(shas, codes, 1, <<>>)

\* uncommitedShas = await this.git.cherryPick(commitShasToCherryPick,
\* conflict_resolution, pwd); a thrown error fails the target
CherryPick ==
  /\ pc = "cherryPick"
  /\ \E batch \in ExitCodes, codes \in [1..Len(commitShasToCherryPick) -> ExitCodes],
        c1 \in CommentOutcomes, c2 \in CommentOutcomes :
       LET r == cherryPick(commitShasToCherryPick, config.conflict_resolution, batch, codes)
       IN  /\ gitLog' = gitLog \o GitCalls(r.calls)
           /\ thrown' = r.error
           /\ IF r.result = "throw"
                THEN FailTarget("cherryPickFailure", c1, c2)
                ELSE /\ Step("push", IF r.result = "null" THEN NullShas ELSE SomeShas(r.shas), new_pr)
                     /\ UNCHANGED <<successByTarget, comments>>
  /\ UNCHANGED <<dashVars, args, ret, strategy, mergeCommitShas, config, commitShasToCherryPick, createdPullRequestNumbers,
                 pulls, metaLog, outputs, createdPulls>>

\* const pushExitCode = await this.git.push(branchname, remote, pwd); a
\* non-zero exit status is tolerated when the branch can be fetched from the
\* remote, otherwise the target fails
\* a failed push that no fetch of the branch makes good
pushToleratedMut(refetch) == FALSE

\* a failed push that is taken as made good whatever the fetch says
pushAlwaysTolerated(refetch) == TRUE

\* the fetch of the pushed branch did not throw: the branch exists on the remote
pushTolerated(refetch) == FetchResult(refetch) = "ok"

\* composeMessageForGitPushFailure(target, pushExitCode)
GitPushFailure(pushExitCode, c) ==
  [OriginComment("gitPushFailure", c) EXCEPT !.exitCode = pushExitCode]

Push ==
  /\ pc = "push"
  /\ \E exit \in {0, 1}, refetch \in ExitCodes, c1 \in CommentOutcomes, c2 \in CommentOutcomes :
       LET pushed == Append(gitLog, GitCall("push", branchname(target), getRemote, exit))
       IN  IF exit = 0
             THEN /\ gitLog' = pushed
                  /\ Goto("createPR")
                  /\ UNCHANGED <<successByTarget, comments>>
             ELSE /\ gitLog' = Append(pushed, GitCall("fetch", branchname(target), getRemote, refetch))
                  /\ IF pushTolerated(refetch)
                       THEN /\ Goto("createPR")
                            /\ UNCHANGED <<successByTarget, comments>>
                       ELSE FailTargetWith(GitPushFailure(exit, c1), c1, c2)
  /\ UNCHANGED <<dashVars, args, ret, strategy, mergeCommitShas, thrown, config, commitShasToCherryPick, createdPullRequestNumbers,
                 pulls, metaLog, outputs, createdPulls>>

\* a createPR call that never asks for a draft
draftMut(shas) == FALSE

\* draft: uncommitedShas !== null
draft(shas) == ~shas.isNull

\* the catch of createPR with the check of the status left out
alreadyExistsMut(res) ==
  IF res.errors = "missing" THEN "TypeError"
  ELSE IF res.errors = "exists" THEN "yes"
  ELSE "no"

\* the condition of the createPR catch under which the rejection means that
\* the pull request exists already; reading errors of a 422 response that
\* has none throws a TypeError
alreadyExists(res) ==
  IF res.status # UnprocessableStatus THEN "no"
  ELSE IF res.errors = "missing" THEN "TypeError"
  ELSE IF res.errors = "exists" THEN "yes"
  ELSE "no"

\* new_pr_response = await this.github.createPR({.., head: branchname, base:
\* target, draft}) and its catch
CreatePR ==
  /\ pc = "createPR"
  /\ \E res \in CreatePRResults, c1 \in CommentOutcomes, c2 \in CommentOutcomes :
       LET number == IF res.kind = "ok" THEN config.pull_number + Len(createdPulls) + 1 ELSE 0
           call == [base |-> target, head |-> branchname(target), idx |-> idx,
                    owner |-> owner, repo |-> repo, draft |-> draft(uncommitedShas)]
       IN
       /\ pulls' = Append(pulls, [number |-> number, call |-> call, res |-> res, metaError |-> "none"])
       /\ createdPulls' = IF res.kind = "ok"
                             THEN Append(createdPulls, [number |-> number, idx |-> idx])
                             ELSE createdPulls
       /\ CASE res.kind = "ok" ->
                 /\ Step(MetaSteps[1], uncommitedShas, number)
                 /\ UNCHANGED <<successByTarget, comments>>
            [] res.kind \in {"Error", "NonError"} ->
                 TargetCatch(res.kind, successByTarget, comments, c2)
            [] res.kind = "RequestError" /\ alreadyExists(res) = "TypeError" ->
                 TargetCatch("Error", successByTarget, comments, c2)
            [] res.kind = "RequestError" /\ alreadyExists(res) = "yes" ->
                 /\ Continue
                 /\ UNCHANGED <<successByTarget, comments>>
            [] OTHER ->
                 FailTarget("createPRFailed", c1, c2)
  /\ UNCHANGED <<dashVars, args, ret, strategy, mergeCommitShas, thrown, config, commitShasToCherryPick, createdPullRequestNumbers,
                 gitLog, metaLog, outputs>>

\* a propagation step that tolerates no error
isRequestErrorMut(out) == FALSE

\* error instanceof RequestError, in the catch of a propagation step
isRequestError(out) == out = "RequestError"

\* The five propagation steps after createPR (milestone, assignees,
\* reviewers, labels, author as assignee), each at its own await.  A step
\* that does not apply is skipped; a RequestError of a step is logged and
\* run() goes on; anything else thrown reaches the per-target catch.  The
\* createPR entry of the log keeps the last error of a step.
Propagate ==
  /\ \E j \in 1..Len(MetaSteps) :
       /\ pc = MetaSteps[j]
       /\ LET next == IF j = Len(MetaSteps) THEN "recordSuccess" ELSE MetaSteps[j + 1]
          IN  IF MetaSteps[j] \notin config.meta
                THEN /\ Goto(next)
                     /\ UNCHANGED <<successByTarget, comments, metaLog, pulls>>
                ELSE \E out \in CallOutcomes, c \in CommentOutcomes :
                       /\ metaLog' = Append(metaLog, [step |-> MetaSteps[j], pr |-> new_pr, idx |-> idx])
                       /\ CASE out = "ok" ->
                                 /\ Goto(next)
                                 /\ UNCHANGED <<successByTarget, comments, pulls>>
                            [] out # "ok" /\ isRequestError(out) ->
                                 /\ pulls' = [pulls EXCEPT ![Len(pulls)].metaError = out]
                                 /\ Goto(next)
                                 /\ UNCHANGED <<successByTarget, comments>>
                            [] OTHER ->
                                 /\ pulls' = [pulls EXCEPT ![Len(pulls)].metaError = out]
                                 /\ TargetCatch(out, successByTarget, comments, c)
  /\ UNCHANGED <<dashVars, args, ret, strategy, mergeCommitShas, thrown, config, commitShasToCherryPick, createdPullRequestNumbers,
                 gitLog, outputs, createdPulls>>

\* successByTarget.set(target, true);
\* createdPullRequestNumbers.push(new_pr.number);
\* and the call of createComment with the success message
RecordSuccess ==
  /\ pc = "recordSuccess"
  /\ successByTarget' = MapSet(successByTarget, target, TRUE)
  /\ createdPullRequestNumbers' = Append(createdPullRequestNumbers, new_pr)
  /\ Goto("successComment")
  /\ UNCHANGED <<dashVars, args, ret, strategy, mergeCommitShas, thrown, config, commitShasToCherryPick, comments, gitLog, pulls, metaLog, outputs, createdPulls>>

\* the success message: with the remaining conflicts when cherryPick
\* returned shas
successMessage(shas) == IF ~shas.isNull THEN "successWithConflicts" ELSE "success"

\* await this.github.createComment(success message) on the source pull
\* request; a partial cherry-pick goes on to the comment on the new pull request
SuccessComment ==
  /\ pc = "successComment"
  /\ \E c1 \in CommentOutcomes, c2 \in CommentOutcomes :
       LET cms == Append(comments, OriginComment(successMessage(uncommitedShas), c1))
       IN  IF c1 = "ok"
             THEN /\ comments' = cms
                  /\ UNCHANGED successByTarget
                  /\ IF ~uncommitedShas.isNull THEN Goto("conflictComment") ELSE Continue
             ELSE TargetCatch(c1, successByTarget, cms, c2)
  /\ UNCHANGED <<dashVars, args, ret, strategy, mergeCommitShas, thrown, config, commitShasToCherryPick, createdPullRequestNumbers,
                 gitLog, pulls, metaLog, outputs, createdPulls>>

\* await this.github.createComment(how to resolve the conflicts) on the new
\* pull request
ConflictComment ==
  /\ pc = "conflictComment"
  /\ \E c1 \in CommentOutcomes, c2 \in CommentOutcomes :
       LET cms == Append(comments, [Comment(new_pr, "resolveConflicts", idx, TRUE, Settled(c1))
                                      EXCEPT !.owner = owner, !.repo = repo])
       IN  IF c1 = "ok"
             THEN /\ comments' = cms
                  /\ UNCHANGED successByTarget
                  /\ Continue
             ELSE TargetCatch(c1, successByTarget, cms, c2)
  /\ UNCHANGED <<dashVars, args, ret, strategy, mergeCommitShas, thrown, config, commitShasToCherryPick, createdPullRequestNumbers,
                 gitLog, pulls, metaLog, outputs, createdPulls>>

\* an output that core.setOutput was called for
Output(v) == [set |-> TRUE, value |-> v]

\* Backport.createOutput
createOutput(sbt, numbers) ==
  [was_successful |-> Output(~(\E i \in 1..Len(sbt) : sbt[i].result = FALSE)),
   was_successful_by_target |-> Output(sbt),
   created_pull_numbers |-> Output(numbers)]

\* this.createOutput(successByTarget, createdPullRequestNumbers) after the loop
CreateOutput ==
  /\ pc = "createOutput"
  /\ outputs' = createOutput(successByTarget, createdPullRequestNumbers)
  /\ Step("done", uncommitedShas, new_pr)
  /\ UNCHANGED <<dashVars, args, ret, strategy, mergeCommitShas, thrown, config, commitShasToCherryPick, successByTarget, createdPullRequestNumbers,
                 comments, gitLog, pulls, metaLog, createdPulls>>

\* A createComment that run() did not await settles on its own: it resolves,
\* or it rejects with nobody handling the rejection.
SettleDetached ==
  /\ \E i \in 1..Len(comments), c \in CommentOutcomes :
       /\ comments[i].result = "pending"
       /\ comments' = [comments EXCEPT ![i].result = Settled(c)]
  /\ UNCHANGED <<dashVars, args, ret, strategy, mergeCommitShas, thrown, config, pc, idx, commitShasToCherryPick, uncommitedShas, new_pr,
                 successByTarget, createdPullRequestNumbers, gitLog, pulls,
                 metaLog, outputs, failed, createdPulls>>

Next ==
  \/ GetPullRequest
  \/ CheckMerged
  \/ FindTargets
  \/ FetchPull
  \/ GetCommits
  \/ MergeStrategyStep
  \/ FindMergeCommits
  \/ FetchTarget
  \/ Checkout
  \/ CherryPick
  \/ Push
  \/ CreatePR
  \/ Propagate
  \/ RecordSuccess
  \/ SuccessComment
  \/ ConflictComment
  \/ CreateOutput
  \/ SettleDetached

Spec == Init /\ [][Next]_vars

(***************************************************************************)
(* findTargetBranches                                                      *)
(*                                                                         *)
(* A string is the sequence of its characters.  A label pattern is one of  *)
(* a family of regular expressions over the labels "p" followed by branch  *)
(* characters: with 0, 1 or 2 capture groups, anchored (^..$) or not, and   *)
(* with the one group optional or not.                                     *)
(***************************************************************************)
\* the characters of labels: "p" stands for the prefix of a backport label
LabelChars == {"p", "a", "b"}

\* the characters a pattern of the family accepts in a branch name
BranchChars == {"a", "b"}

\* the characters of target_branches inputs
InputChars == {"a", " ", "\t"}

\* what String.prototype.trim strips
Whitespace == {" ", "\t"}

\* the strings over S of at most n characters
Strings(S, n) == UNION {[1..k -> S] : k \in 0..n}

\* an undefined source_labels_pattern
UndefinedPattern == [isUndefined |-> TRUE, anchored |-> FALSE, groups |-> 0, optional |-> FALSE]

\* p[ab]+, p([ab]+), p([ab]+)? or p([ab])([ab]*), anchored or not
Pattern(anchored, groups, optional) ==
  [isUndefined |-> FALSE, anchored |-> anchored, groups |-> groups, optional |-> optional]

Patterns ==
  {UndefinedPattern}
    \cup {Pattern(a, g, FALSE) : a \in BOOLEAN, g \in 0..2}
    \cup {Pattern(a, 1, TRUE) : a \in BOOLEAN}

\* an undefined target_branches
UndefinedInput == [isUndefined |-> TRUE, text |-> <<>>]

\* a target_branches string
Input(text) == [isUndefined |-> FALSE, text |-> text]

\* labels of pull requests given in lists: backport a, backport b,
\* backport ab, and a label that is no backport label
SampleLabels == {<<"p", "a">>, <<"p", "b">>, <<"p", "a", "b">>, <<"a">>}

\* the label lists of the calls: one label of any text, or several sample labels
LabelLists ==
  {<<l>> : l \in Strings(LabelChars, MaxLabelLen)}
    \cup UNION {[1..k -> SampleLabels] : k \in 0..MaxLabels}

\* the head refs of the calls
Headrefs == {<<"a">>, <<"b">>}

\* the calls of findTargetBranches(config, labels, headref)
TargetCalls ==
  [fn : {"findTargetBranches"},
   config : [source_labels_pattern : Patterns,
             target_branches : {UndefinedInput} \cup {Input(t) : t \in Strings(InputChars, MaxLen)}],
   labels : LabelLists,
   headref : Headrefs]

\* the result of RegExp.exec without a match
NoMatch == [isNull |-> TRUE, match |-> <<>>]

\* the value of a capture group that took no part in the match
UndefinedGroup == <<"undefined">>

\* the last index of the longest run of branch characters of label that
\* starts at i (i - 1 when there is none)
RunEnd(label, i) ==
  LET ends == {e \in (i - 1)..Len(label) : \A k \in i..e : label[k] \in BranchChars}
  IN  CHOOSE e \in ends : \A f \in ends : f <= e

\* the pattern matches label from position i on
MatchesAt(pattern, label, i) ==
  LET e == RunEnd(label, i + 1)
  IN  /\ label[i] = "p"
      /\ e > i \/ pattern.optional
      /\ pattern.anchored => (i = 1 /\ e = Len(label))

\* the match array of a match from position i on: the matched text, then
\* the value of each capture group
MatchAt(pattern, label, i) ==
  LET e == RunEnd(label, i + 1)
      whole == SubSeq(label, i, e)
  IN  CASE pattern.groups = 0 -> <<whole>>
        [] pattern.groups = 1 -> <<whole, IF e > i THEN SubSeq(label, i + 1, e) ELSE UndefinedGroup>>
        [] OTHER -> <<whole, SubSeq(label, i + 1, i + 1), SubSeq(label, i + 2, e)>>

\* a search that tries the start of the label only
StartsMut(pattern, label) == {i \in 1..Len(label) : i = 1}

\* the positions RegExp.exec tries: every position of the label, from the left
Starts(pattern, label) == 1..Len(label)

\* pattern.exec(label): the match array of the leftmost match, or null
exec(pattern, label) ==
  LET found == {i \in Starts(pattern, label) : MatchesAt(pattern, label, i)}
  IN  IF found = {} THEN NoMatch
      ELSE [isNull |-> FALSE,
            match |-> MatchAt(pattern, label, CHOOSE i \in found : \A j \in found : i <= j)]

\* a filter of matches that accepts every match with a first group
hasOneGroupMut(match) == Len(match) >= 2

\* result.match.length === 2: the match array holds the matched text and
\* one capture group
hasOneGroup(match) == Len(match) = 2

\* findTargetBranchesFromLabels: nothing without a pattern, otherwise the
\* first group of every label whose match has exactly one group
findTargetBranchesFromLabels(labels, cfg) ==
  LET pattern == cfg.source_labels_pattern
  IN
  IF pattern.isUndefined THEN <<>>
  ELSE LET results == [k \in 1..Len(labels) |-> exec(pattern, labels[k])]
           kept == SelectSeq(results, LAMBDA r : ~r.isNull /\ hasOneGroup(r.match))
       IN  [k \in 1..Len(kept) |-> kept[k].match[2]]

\* String.prototype.split(" "): the pieces between single spaces
split(text) ==
  LET F[i \in 0..Len(text)] ==
        IF i = 0 THEN <<(<<>>)>>
        ELSE IF text[i] = " " THEN Append(F[i - 1], <<>>)
        ELSE [F[i - 1] EXCEPT ![Len(F[i - 1])] = Append(@, text[i])]
  IN  F[Len(text)]

\* a trim that strips nothing
trimMut(t) == t

\* String.prototype.trim: without the whitespace at both ends
trim(t) ==
  LET inner == {k \in 1..Len(t) : t[k] \notin Whitespace}
  IN  IF inner = {} THEN <<>>
      ELSE SubSeq(t, CHOOSE k \in inner : \A j \in inner : k <= j,
                     CHOOSE k \in inner : \A j \in inner : j <= k)

\* config.target_branches?.split(" ").map((t) => t.trim()).filter((t) => t !== "") ?? []
configuredTargetBranches(input) ==
  IF input.isUndefined THEN <<>>
  ELSE LET pieces == split(input.text)
       IN  SelectSeq([k \in 1..Len(pieces) |-> trim(pieces[k])], LAMBDA t : t # <<>>)

\* a list that keeps its duplicates
uniqueMut(list) == list

\* [...new Set(list)]: each element once, in the order of first occurrence
unique(list) ==
  LET F[i \in 0..Len(list)] ==
        IF i = 0 THEN <<>>
        ELSE IF list[i] \in Range(F[i - 1]) THEN F[i - 1] ELSE Append(F[i - 1], list[i])
  IN  F[Len(list)]

\* a list that keeps the head ref
excludeHeadrefMut(list, headref) == list

\* .filter((t) => t !== headref)
excludeHeadref(list, headref) == SelectSeq(list, LAMBDA t : t # headref)

\* findTargetBranches(config, labels, headref)
findTargetBranches(cfg, labels, headref) ==
  LET targetBranchesFromLabels == findTargetBranchesFromLabels(labels, cfg)
      configured == configuredTargetBranches(cfg.target_branches)
  IN  excludeHeadref(unique(targetBranchesFromLabels \o configured), headref)

\* a call of findTargetBranches returns; the branches found in the labels
\* and in the input are what the function logs before it returns
CallFindTargetBranches ==
  /\ args.fn = "findTargetBranches"
  /\ ~ret.done
  /\ ret' = [done |-> TRUE,
             value |-> findTargetBranches(args.config, args.labels, args.headref),
             fromLabels |-> findTargetBranchesFromLabels(args.labels, args.config),
             configured |-> configuredTargetBranches(args.config.target_branches)]
  /\ UNCHANGED <<dashVars, args, config, pc, idx, strategy, commitShasToCherryPick, mergeCommitShas, uncommitedShas, thrown, new_pr,
                 successByTarget, createdPullRequestNumbers, comments, gitLog, pulls,
                 metaLog, outputs, failed, createdPulls>>

InitTargets ==
  /\ config = CHOOSE c \in Configs : TRUE
  /\ NotStarted
  /\ args \in TargetCalls
  /\ ret = NoReturn
  /\ NoDashboard

NextTargets == CallFindTargetBranches

SpecTargets == InitTargets /\ [][NextTargets]_vars

(***************************************************************************)
(* The dashboard (src/unnamed/part_010): the text of the dashboard issue.  *)
(* A string is the sequence of its characters; positions are counted from  *)
(* 0 as in the code.  The prose of the header is abbreviated.              *)
(***************************************************************************)
\* Dashboard.TITLE
TITLE == "Backport Dashboard"

\* Dashboard.HEADER
HEADER ==
  <<"<", "!", "-", "-", " ", "V", "E", "R", "S", "I", "O", "N", ":", " ", "1", " ", "-", "-", ">", "\n", "B", "a", "c", "k", "p", "o", "r", "t", "s", ".", "\n", "\n", ">", " ", "[", "!", "N", "O", "T", "E", "]", "\n", ">", " ", "D", "a", "t", "a", " ", "s", "t", "o", "r", "e", ".", "\n", "\n", "-", "-", "-">>

\* the text of an empty dashboard
NoActiveBackports == <<"N", "o", " ", "a", "c", "t", "i", "v", "e", " ", "b", "a", "c", "k", "p", "o", "r", "t", "s", ".">>

\* the backtick, which a string of this language cannot hold
Backtick == "backtick"

\* the backslash
Backslash == "\\"

\* the decimal digits, each at its value plus one
Digits == <<"0", "1", "2", "3", "4", "5", "6", "7", "8", "9">>

\* the value of a decimal digit
DigitValue(ch) == (CHOOSE k \in 1..Len(Digits) : Digits[k] = ch) - 1

\* NaN
NaN == [isNaN |-> TRUE, value |-> 0]

\* a number that is not NaN
Number(n) == [isNaN |-> FALSE, value |-> n]

\* String.prototype.split("\n"): the pieces between the line breaks
lines(body) ==
  LET breaks == {p \in 1..Len(body) : body[p] = "\n"}
      n == Cardinality(breaks)
      break(k) == IF k = 0 THEN 0
                  ELSE IF k = n + 1 THEN Len(body) + 1
                  ELSE CHOOSE p \in breaks : Cardinality({q \in breaks : q < p}) = k - 1
  IN  [k \in 1..(n + 1) |-> SubSeq(body, break(k - 1) + 1, break(k) - 1)]

\* String.prototype.indexOf(ch, from): -1 when ch does not occur from there on
indexOf(s, ch, from) ==
  LET hits == {i \in from..(Len(s) - 1) : s[i + 1] = ch}
  IN  IF hits = {} THEN -1 ELSE CHOOSE i \in hits : \A j \in hits : i <= j

\* String.prototype.lastIndexOf(ch)
lastIndexOf(s, ch) ==
  LET hits == {i \in 0..(Len(s) - 1) : s[i + 1] = ch}
  IN  IF hits = {} THEN -1 ELSE CHOOSE i \in hits : \A j \in hits : j <= i

\* String.prototype.substring(start, end) for 0 <= start <= end <= length
substring(s, start, end) == SubSeq(s, start + 1, end)

\* String.prototype.substring(start)
substringFrom(s, start) == SubSeq(s, start + 1, Len(s))

\* String.prototype.startsWith
startsWith(s, prefix) == Len(s) >= Len(prefix) /\ SubSeq(s, 1, Len(prefix)) = prefix

\* the longest prefix of decimal digits: what /^(\d+)/ captures, empty when
\* it does not match
leadingDigits(s) ==
  LET ks == {k \in 0..Len(s) : \A j \in 1..k : s[j] \in Range(Digits)}
  IN  SubSeq(s, 1, CHOOSE k \in ks : \A j \in ks : j <= k)

\* the number a string of decimal digits denotes
decimal(ds) ==
  LET F[i \in 0..Len(ds)] == IF i = 0 THEN 0 ELSE F[i - 1] * 10 + DigitValue(ds[i])
  IN  F[Len(ds)]

\* parseInt(s, 10): leading whitespace is skipped, a sign is read, then the
\* longest run of digits; what follows the digits is ignored; NaN without a
\* digit
parseInt(s) ==
  LET inner == {k \in 1..Len(s) : s[k] \notin Whitespace}
      t == IF inner = {} THEN <<>>
           ELSE SubSeq(s, CHOOSE k \in inner : \A j \in inner : k <= j, Len(s))
      signed == t # <<>> /\ t[1] \in {"-", "+"}
      ds == leadingDigits(IF signed THEN Tail(t) ELSE t)
  IN  IF ds = <<>> THEN NaN
      ELSE IF signed /\ t[1] = "-" THEN Number(0 - decimal(ds))
      ELSE Number(decimal(ds))

\* the text before the digits of versionRegex
VersionOpen == <<"<", "!", "-", "-", " ", "V", "E", "R", "S", "I", "O", "N", ":", " ">>

\* the text after the digits of versionRegex
VersionClose == <<" ", "-", "-", ">">>

\* lines[0].match(/<!-- VERSION: (\d+) -->/): the digits of the leftmost
\* match, or null
versionMatch(line) ==
  LET digitsAt(i) == leadingDigits(SubSeq(line, i + Len(VersionOpen), Len(line)))
      matches == {i \in 1..Len(line) :
                    /\ startsWith(SubSeq(line, i, Len(line)), VersionOpen)
                    /\ digitsAt(i) # <<>>
                    /\ startsWith(SubSeq(line, i + Len(VersionOpen) + Len(digitsAt(i)), Len(line)),
                                  VersionClose)}
  IN  IF matches = {} THEN [isNull |-> TRUE, digits |-> <<>>]
      ELSE [isNull |-> FALSE, digits |-> digitsAt(CHOOSE i \in matches : \A j \in matches : i <= j)]

\* version: versionMatch ? parseInt(versionMatch[1], 10) : 0
version(line) ==
  IF versionMatch(line).isNull THEN Number(0) ELSE parseInt(versionMatch(line).digits)

\* isNaN(version) || version < 1
unsupported(v) == v.isNaN \/ v.value < 1

\* the check of parseHeader for NaN left out
parseHeaderMut(trimmedLine) ==
  LET spaceIndex == indexOf(trimmedLine, " ", 4)
      number == parseInt(substring(trimmedLine, 4, spaceIndex))
      title == trim(substringFrom(trimmedLine, spaceIndex + 1))
  IN  IF spaceIndex = -1 THEN <<>>
      ELSE <<[originalPrNumber |-> number.value, originalPrTitle |-> title, backports |-> <<>>]>>

\* a line "## #<number> <title>": the entry it opens, or nothing when there
\* is no space after the number or the number is NaN
parseHeader(trimmedLine) ==
  LET spaceIndex == indexOf(trimmedLine, " ", 4)
      number == parseInt(substring(trimmedLine, 4, spaceIndex))
      title == trim(substringFrom(trimmedLine, spaceIndex + 1))
  IN  IF spaceIndex = -1 THEN <<>>
      ELSE IF number.isNaN THEN <<>>
      ELSE <<[originalPrNumber |-> number.value, originalPrTitle |-> title, backports |-> <<>>]>>

\* an item line, a dash, the branch between backticks, a colon and the
\* link: the backport it lists, or nothing when one of the checks of the
\* parser fails
parseItem(trimmedLine) ==
  LET firstBacktick == indexOf(trimmedLine, Backtick, 0)
      colonIndex == indexOf(trimmedLine, ":", firstBacktick + 1)
      preColonPart == substring(trimmedLine, firstBacktick + 1, colonIndex)
      lastBacktickIndex == lastIndexOf(preColonPart, Backtick)
      branch == substring(preColonPart, 0, lastBacktickIndex)
      rest == trim(substringFrom(trimmedLine, colonIndex + 1))
      hashIndex == lastIndexOf(rest, "#")
      numberStr == substringFrom(rest, hashIndex + 1)
      numberMatch == leadingDigits(numberStr)
  IN  IF firstBacktick = -1 THEN <<>>
      ELSE IF trim(substring(trimmedLine, 1, firstBacktick)) # <<>> THEN <<>>
      ELSE IF colonIndex = -1 THEN <<>>
      ELSE IF lastBacktickIndex = -1 THEN <<>>
      ELSE IF trim(substringFrom(preColonPart, lastBacktickIndex + 1)) # <<>> THEN <<>>
      ELSE IF branch = <<>> THEN <<>>
      ELSE IF hashIndex = -1 THEN <<>>
      ELSE IF numberMatch = <<>> THEN <<>>
      ELSE <<[branch |-> branch, number |-> decimal(numberMatch)]>>

\* one pass of the loop over the lines: a header opens an entry, an item is
\* added to the entry opened last, anything else is skipped
parseLine(entries, line) ==
  LET trimmedLine == trim(line)
  IN  IF startsWith(trimmedLine, <<"#", "#", " ", "#">>)
        THEN entries \o parseHeader(trimmedLine)
      ELSE IF startsWith(trimmedLine, <<"-">>) /\ entries # <<>>
        THEN [entries EXCEPT ![Len(entries)].backports = @ \o parseItem(trimmedLine)]
      ELSE entries

\* what parseDashboard returns for an unsupported version
Undefined == [isUndefined |-> TRUE, entries |-> <<>>]

\* an entry list that parseDashboard returns
Entries(entries) == [isUndefined |-> FALSE, entries |-> entries]

\* Dashboard.parseDashboard
parseDashboard(body) ==
  LET ls == lines(body)
      F[i \in 0..Len(ls)] == IF i = 0 THEN <<>> ELSE parseLine(F[i - 1], ls[i])
  IN  IF unsupported(version(ls[1])) THEN Undefined ELSE Entries(F[Len(ls)])

\* String(n) of an integer
RECURSIVE toString(_)
toString(n) ==
  IF n < 0 THEN <<"-">> \o toString(0 - n)
  ELSE IF n < Len(Digits) THEN <<Digits[n + 1]>>
  ELSE toString(n \div Len(Digits)) \o <<Digits[(n % Len(Digits)) + 1]>>

\* originalPrTitle.replace(/\n/g, " ")
sanitizedTitle(title) == [i \in 1..Len(title) |-> IF title[i] = "\n" THEN " " ELSE title[i]]

\* an escape that puts a backslash before every backtick
RECURSIVE sanitizedBranchMut(_)
sanitizedBranchMut(branch) ==
  IF branch = <<>> THEN <<>>
  ELSE IF branch[1] = Backtick THEN <<Backslash, Backtick>> \o sanitizedBranchMut(Tail(branch))
  ELSE <<branch[1]>> \o sanitizedBranchMut(Tail(branch))

\* bpr.branch.replace with the pattern of an optional backslash and a
\* backtick: a backtick gets a backslash before it unless it has one
RECURSIVE sanitizedBranch(_)
sanitizedBranch(branch) ==
  IF branch = <<>> THEN <<>>
  ELSE IF Len(branch) >= 2 /\ branch[1] = Backslash /\ branch[2] = Backtick
    THEN <<Backslash, Backtick>> \o sanitizedBranch(Tail(Tail(branch)))
  ELSE IF branch[1] = Backtick THEN <<Backslash, Backtick>> \o sanitizedBranch(Tail(branch))
  ELSE <<branch[1]>> \o sanitizedBranch(Tail(branch))

\* the downstream repository of a Dashboard: none, or its owner and name
NoDownstream == [defined |-> FALSE, owner |-> <<>>, repo |-> <<>>]

\* the link of a backport: owner/repo#number with a downstream repository,
\* #number without
link(downstream, number) ==
  IF downstream.defined
    THEN downstream.owner \o <<"/">> \o downstream.repo \o <<"#">> \o toString(number)
    ELSE <<"#">> \o toString(number)

\* the lines of one entry
renderEntry(entry, downstream) ==
  LET item(bpr) == <<"-", " ", Backtick>> \o sanitizedBranch(bpr.branch) \o <<Backtick, ":", " ">>
                     \o link(downstream, bpr.number) \o <<"\n">>
      F[i \in 0..Len(entry.backports)] ==
        IF i = 0
          THEN <<"\n", "#", "#", " ", "#">> \o toString(entry.originalPrNumber) \o <<" ">>
                 \o sanitizedTitle(entry.originalPrTitle) \o <<"\n">>
          ELSE F[i - 1] \o item(entry.backports[i])
  IN  F[Len(entry.backports)]

\* Dashboard.renderDashboard
renderDashboard(entries, downstream) ==
  LET F[i \in 0..Len(entries)] ==
        IF i = 0 THEN HEADER ELSE F[i - 1] \o renderEntry(entries[i], downstream)
  IN  IF entries = <<>> THEN HEADER \o <<"\n">> \o NoActiveBackports \o <<"\n">>
      ELSE F[Len(entries)]

(***************************************************************************)
(* Calls of parseDashboard and renderDashboard on their own, as the tests   *)
(* of the parser and of the renderer make them (src/unnamed/part_006,       *)
(* src/unnamed/part_008).                                                  *)
(***************************************************************************)
\* lines that open an entry, each with the number and the title it stands for;
\* parseInt reads the number off the front of 1a
HeaderLines ==
  {[kind |-> "header", number |-> 1, name |-> <<"a">>,
     text |-> <<"#", "#", " ", "#", "1", " ", "a">>],
   [kind |-> "header", number |-> 12, name |-> <<"b", " ", "c">>,
     text |-> <<"#", "#", " ", "#", "1", "2", " ", "b", " ", "c">>],
   [kind |-> "header", number |-> 2, name |-> <<"a">>,
     text |-> <<" ", " ", "#", "#", " ", "#", "2", " ", " ", " ", "a", " ", " ">>],
   [kind |-> "header", number |-> 1, name |-> <<"b">>,
     text |-> <<"#", "#", " ", "#", "1", "a", " ", "b">>]}

\* lines that list a backport, each with the number and the branch it stands for
ItemLines ==
  {[kind |-> "item", number |-> 11, name |-> <<"a">>,
     text |-> <<"-", " ", Backtick, "a", Backtick, ":", " ", "#", "1", "1">>],
   [kind |-> "item", number |-> 12, name |-> <<"b">>,
     text |-> <<"-", " ", Backtick, "b", Backtick, ":", " ", "o", "/", "r", "#", "1", "2">>],
   [kind |-> "item", number |-> 11, name |-> <<"a">>,
     text |-> <<"-", " ", " ", " ", Backtick, "a", Backtick, " ", " ", ":", " ", " ", " ", "#", "1", "1", " ", " ">>],
   [kind |-> "item", number |-> 11, name |-> <<"a", " ", Backtick, " ", "b">>,
     text |-> <<"-", " ", Backtick, "a", " ", Backtick, " ", "b", Backtick, ":", " ", "#", "1", "1">>]}

\* malformed headers, malformed items and other text: lines that stand for nothing
MalformedLines ==
  {[kind |-> "other", number |-> 0, name |-> <<>>,
     text |-> <<"#", "#", " ", "#", " ", "a">>],
   [kind |-> "other", number |-> 0, name |-> <<>>,
     text |-> <<"#", "#", " ", "#", "1">>],
   [kind |-> "other", number |-> 0, name |-> <<>>,
     text |-> <<"#", "#", " ", "a">>],
   [kind |-> "other", number |-> 0, name |-> <<>>,
     text |-> <<"#", "#", " ", "#", "n", "a", "n", " ", "a">>],
   [kind |-> "other", number |-> 0, name |-> <<>>,
     text |-> <<"-", " ", "a">>],
   [kind |-> "other", number |-> 0, name |-> <<>>,
     text |-> <<"-", " ", Backtick, "a", Backtick, ":", " ", "x">>],
   [kind |-> "other", number |-> 0, name |-> <<>>,
     text |-> <<"-", " ", Backtick, Backtick, ":", " ", "#", "1", "1">>],
   [kind |-> "other", number |-> 0, name |-> <<>>,
     text |-> <<"-", " ", Backtick, "a", Backtick, ":", " ", "#">>],
   [kind |-> "other", number |-> 0, name |-> <<>>,
     text |-> <<"-", " ", Backtick, "a", Backtick, ":", " ", "#", "n", "a", "n">>],
   [kind |-> "other", number |-> 0, name |-> <<>>,
     text |-> <<"-", " ", "x", Backtick, "a", Backtick, ":", " ", "#", "1", "1">>],
   [kind |-> "other", number |-> 0, name |-> <<>>,
     text |-> <<"-", " ", Backtick, "a", Backtick, "x", ":", " ", "#", "1", "1">>],
   [kind |-> "other", number |-> 0, name |-> <<>>,
     text |-> <<"-", " ", Backtick, "a", Backtick, " ", "#", "1", "1">>],
   [kind |-> "other", number |-> 0, name |-> <<>>,
     text |-> <<>>],
   [kind |-> "other", number |-> 0, name |-> <<>>,
     text |-> <<"-", "-", "-">>],
   [kind |-> "other", number |-> 0, name |-> <<>>,
     text |-> <<"t", "e", "x", "t">>]}

\* first lines of a body, each with the version its marker gives, -1 without a marker
FirstLines ==
  {[version |-> 1,
     text |-> <<"<", "!", "-", "-", " ", "V", "E", "R", "S", "I", "O", "N", ":", " ", "1", " ", "-", "-", ">">>],
   [version |-> 0,
     text |-> <<"<", "!", "-", "-", " ", "V", "E", "R", "S", "I", "O", "N", ":", " ", "0", " ", "-", "-", ">">>],
   [version |-> 2,
     text |-> <<"<", "!", "-", "-", " ", "V", "E", "R", "S", "I", "O", "N", ":", " ", "2", " ", "-", "-", ">">>],
   [version |-> 1,
     text |-> <<"x", " ", "<", "!", "-", "-", " ", "V", "E", "R", "S", "I", "O", "N", ":", " ", "1", " ", "-", "-", ">", " ", "y">>],
   [version |-> -1,
     text |-> <<"<", "!", "-", "-", " ", "V", "E", "R", "S", "I", "O", "N", ":", " ", "-", "-", ">">>],
   [version |-> -1,
     text |-> <<"B", "a", "c", "k", "p", "o", "r", "t", "s", ".">>],
   [version |-> -1,
     text |-> <<>>]}

\* titles of source pull requests: plain, with a line break, empty, with a leading space
Titles ==
  {<<"a">>,
   <<"a", "\n", "b">>,
   <<>>,
   <<" ", "a">>}

\* branch names: plain, with a backtick, with a backtick that is escaped already
Branches ==
  {<<"a">>,
   <<"a", Backtick, "b">>,
   <<"a", Backslash, Backtick, "b">>}

\* a downstream repository o/r
Downstream == [defined |-> TRUE, owner |-> <<"o">>, repo |-> <<"r">>]

\* the backports of the entries that are rendered
BackportEntries == [number : {11}, branch : Branches]

\* the entries that are rendered
DashboardEntries ==
  [originalPrNumber : {1}, originalPrTitle : Titles, backports : Strings(BackportEntries, MaxLinks)]

\* the lines of a body joined by line breaks
join(first, rest) ==
  LET F[i \in 0..Len(rest)] == IF i = 0 THEN first.text ELSE F[i - 1] \o <<"\n">> \o rest[i].text
  IN  F[Len(rest)]

\* the calls of parseDashboard: a first line and up to MaxLines more lines
ParseCalls ==
  {[fn |-> "parseDashboard", first |-> f, rest |-> r, body |-> join(f, r)] :
     f \in FirstLines, r \in Strings(HeaderLines \cup ItemLines \cup MalformedLines, MaxLines)}

\* the calls of renderDashboard
RenderCalls ==
  {[fn |-> "renderDashboard", entries |-> e, downstream |-> d] :
     e \in Strings(DashboardEntries, MaxEntries), d \in {NoDownstream, Downstream}}

\* the rendered body was not parsed yet
Pending == [pending |-> TRUE]

\* a call of parseDashboard returns
CallParseDashboard ==
  /\ args.fn = "parseDashboard"
  /\ ~ret.done
  /\ ret' = [done |-> TRUE, value |-> parseDashboard(args.body)]
  /\ UNCHANGED <<dashVars, args, config, pc, idx, strategy, commitShasToCherryPick, mergeCommitShas, uncommitedShas, thrown, new_pr,
                 successByTarget, createdPullRequestNumbers, comments, gitLog, pulls,
                 metaLog, outputs, failed, createdPulls>>

\* a call of renderDashboard returns
CallRenderDashboard ==
  /\ args.fn = "renderDashboard"
  /\ ~ret.done
  /\ ret' = [done |-> TRUE, value |-> renderDashboard(args.entries, args.downstream), parsed |-> Pending]
  /\ UNCHANGED <<dashVars, args, config, pc, idx, strategy, commitShasToCherryPick, mergeCommitShas, uncommitedShas, thrown, new_pr,
                 successByTarget, createdPullRequestNumbers, comments, gitLog, pulls,
                 metaLog, outputs, failed, createdPulls>>

\* the body that renderDashboard returned is given to parseDashboard, as the
\* next run does with the body it wrote
ParseRendered ==
  /\ args.fn = "renderDashboard"
  /\ ret.done
  /\ ret.parsed = Pending
  /\ ret' = [ret EXCEPT !.parsed = parseDashboard(ret.value)]
  /\ UNCHANGED <<dashVars, args, config, pc, idx, strategy, commitShasToCherryPick, mergeCommitShas, uncommitedShas, thrown, new_pr,
                 successByTarget, createdPullRequestNumbers, comments, gitLog, pulls,
                 metaLog, outputs, failed, createdPulls>>

InitText ==
  /\ config = CHOOSE c \in Configs : TRUE
  /\ NotStarted
  /\ args \in ParseCalls \cup RenderCalls
  /\ ret = NoReturn
  /\ NoDashboard

NextText ==
  \/ CallParseDashboard
  \/ CallRenderDashboard
  \/ ParseRendered

SpecText == InitText /\ [][NextText]_vars

(***************************************************************************)
(* Dashboard.createOrUpdateDashboard (src/unnamed/part_010), one action    *)
(* per await.  Several runs of the action share the dashboard issue; none  *)
(* of them takes a lock.                                                   *)
(***************************************************************************)
\* the runs of createOrUpdateDashboard, numbered in the order in which they
\* read the issues
Runs == 1..MaxRuns

\* the variables of Backport.run and of the calls of the pure functions
backportVars ==
  <<config, pc, idx, strategy, commitShasToCherryPick, mergeCommitShas, uncommitedShas, thrown, new_pr,
     successByTarget, createdPullRequestNumbers, comments, gitLog, pulls,
     metaLog, outputs, failed, createdPulls, args, ret>>

\* the calls of createOrUpdateDashboard: the source pull request and the
\* backport pull requests that the run created, which may be none; one
\* title ends with a space
DashboardCalls ==
  {[originalPR |-> [number |-> 1, title |-> <<"a">>],
    backportPRs |-> <<[number |-> 11, branch |-> <<"x">>]>>],
   [originalPR |-> [number |-> 1, title |-> <<"a">>],
    backportPRs |-> <<[number |-> 11, branch |-> <<"x">>], [number |-> 12, branch |-> <<"y">>]>>],
   [originalPR |-> [number |-> 2, title |-> <<"b">>],
    backportPRs |-> <<[number |-> 21, branch |-> <<"x">>]>>],
   [originalPR |-> [number |-> 2, title |-> <<"b">>],
    backportPRs |-> <<>>],
   [originalPR |-> [number |-> 1, title |-> <<"a", " ">>],
    backportPRs |-> <<[number |-> 11, branch |-> <<"x">>]>>]}

\* the open issues that getIssues finds before the first run: none, an
\* empty dashboard of version 1, a dashboard of version 2, a dashboard
\* without a marker, a dashboard without a body (read as the empty string),
\* and an issue whose title only holds the title of the dashboard
StoredIssues ==
  {<<>>,
   <<[number |-> 1, title |-> TITLE, body |-> renderDashboard(<<>>, NoDownstream)]>>,
   <<[number |-> 1, title |-> TITLE, body |-> <<"<", "!", "-", "-", " ", "V", "E", "R", "S", "I", "O", "N", ":", " ", "2", " ", "-", "-", ">", "\n", "#", "#", " ", "#", "1", " ", "a", "\n", "-", " ", Backtick, "x", Backtick, ":", " ", "#", "1", "1">>]>>,
   <<[number |-> 1, title |-> TITLE, body |-> <<"B", "a", "c", "k", "p", "o", "r", "t", "s", ".", "\n", "#", "#", " ", "#", "1", " ", "a", "\n", "-", " ", Backtick, "x", Backtick, ":", " ", "#", "1", "1">>]>>,
   <<[number |-> 1, title |-> TITLE, body |-> <<>>]>>,
   <<[number |-> 1, title |-> "Old Backport Dashboard", body |-> renderDashboard(<<>>, NoDownstream)]>>}

\* findDashboardIssue found no issue
NoIssue == [found |-> FALSE, number |-> 0, body |-> <<>>]

\* issues.find((i) => i.title === Dashboard.TITLE) on the issues in the
\* order of their creation
findDashboardIssue(is) ==
  LET found == {n \in 1..Len(is) : is[n].title = TITLE}
      first == CHOOSE n \in found : \A m \in found : n <= m
  IN  IF found = {} THEN NoIssue
      ELSE [found |-> TRUE, number |-> is[first].number, body |-> is[first].body]

\* a run that has not started
Idle ==
  [pc |-> "getIssues", originalPR |-> [number |-> 0, title |-> <<>>], backportPRs |-> <<>>,
   issue |-> NoIssue, entries |-> <<>>, i |-> 0, k |-> 0, activeBackports |-> <<>>,
   checked |-> <<>>, newBody |-> <<>>, calls |-> <<>>, error |-> FALSE, after |-> {}]

\* the loops over the entries, last to first, and over the backports of an
\* entry, up to the next await of getPullRequest or to the end of the outer
\* loop: an entry whose activeBackports stayed empty is spliced out
RECURSIVE statusLoop(_)
statusLoop(run) ==
  IF run.i = 0 THEN [run EXCEPT !.pc = "reconstruct"]
  ELSE IF run.k <= Len(run.entries[run.i].backports) THEN [run EXCEPT !.pc = "getPullRequest"]
  ELSE statusLoop([run EXCEPT
         !.entries = IF run.activeBackports = <<>>
                       THEN SubSeq(@, 1, run.i - 1) \o SubSeq(@, run.i + 1, Len(@))
                       ELSE @,
         !.i = @ - 1, !.k = 1, !.activeBackports = <<>>])

\* an addBackports that pushes every backport of the run
addBackportsMut(entries, originalPR, backportPRs) ==
  LET found == {n \in 1..Len(entries) : entries[n].originalPrNumber = originalPR.number}
      all == IF found = {}
               THEN Append(entries, [originalPrNumber |-> originalPR.number,
                                     originalPrTitle |-> originalPR.title, backports |-> <<>>])
               ELSE entries
      at == IF found = {} THEN Len(all) ELSE CHOOSE n \in found : \A m \in found : n <= m
  IN  [all EXCEPT ![at].backports =
         @ \o [n \in 1..Len(backportPRs) |->
                 [number |-> backportPRs[n].number, branch |-> backportPRs[n].branch]]]

\* find or create the entry of originalPR and push the backports of the run
\* that it does not list by number
addBackports(entries, originalPR, backportPRs) ==
  LET found == {n \in 1..Len(entries) : entries[n].originalPrNumber = originalPR.number}
      all == IF found = {}
               THEN Append(entries, [originalPrNumber |-> originalPR.number,
                                     originalPrTitle |-> originalPR.title, backports |-> <<>>])
               ELSE entries
      at == IF found = {} THEN Len(all) ELSE CHOOSE n \in found : \A m \in found : n <= m
      F[n \in 0..Len(backportPRs)] ==
        IF n = 0 THEN all[at].backports
        ELSE LET backports == F[n - 1]
                 bpr == backportPRs[n]
             IN  IF \E m \in 1..Len(backports) : backports[m].number = bpr.number
                   THEN backports
                   ELSE Append(backports, [number |-> bpr.number, branch |-> bpr.branch])
  IN  [all EXCEPT ![at].backports = F[Len(backportPRs)]]

\* a write of the body whenever there is an issue
writeMut(issue, newBody) ==
  IF issue.found THEN "updateIssue" ELSE "createIssue"

\* the call that follows renderDashboard: updateIssue when the body of the
\* issue that was read differs, createIssue when no issue was found
write(issue, newBody) ==
  IF issue.found
    THEN IF issue.body # newBody THEN "updateIssue" ELSE "done"
    ELSE "createIssue"

\* a run from the end of an await to its next await or to its return
resume(run) ==
  LET r == statusLoop(run)
      entries == addBackports(r.entries, r.originalPR, r.backportPRs)
      newBody == renderDashboard(entries, NoDownstream)
  IN  IF r.pc = "getPullRequest" THEN r
      ELSE [r EXCEPT !.checked = r.entries, !.entries = entries, !.newBody = newBody,
                     !.pc = write(r.issue, newBody)]

\* createOrUpdateDashboard is called and getIssues resolves: the body of
\* the dashboard issue, or HEADER without one, is parsed, and the run goes
\* on unless the version is unsupported
FindDashboardIssue(r) ==
  /\ runs[r].pc = "getIssues"
  /\ \A q \in Runs : q < r => runs[q].pc # "getIssues"
  /\ \E call \in DashboardCalls :
       LET issue == findDashboardIssue(issues)
           body == IF issue.found THEN issue.body ELSE HEADER
           parsed == parseDashboard(body)
           run == [runs[r] EXCEPT !.originalPR = call.originalPR, !.backportPRs = call.backportPRs,
                                  !.issue = issue,
                                  !.after = {q \in Runs : runs[q].pc = "done"}]
       IN  runs' = [runs EXCEPT ![r] =
                      IF parsed.isUndefined THEN [run EXCEPT !.pc = "done"]
                      ELSE resume([run EXCEPT !.entries = parsed.entries,
                                              !.i = Len(parsed.entries), !.k = 1])]
  /\ UNCHANGED <<issues, pullStates>>
  /\ UNCHANGED backportVars

\* getPullRequest of a listed backport resolves
DashboardGetPullRequest(r) ==
  /\ runs[r].pc = "getPullRequest"
  /\ LET run == runs[r]
         bpr == run.entries[run.i].backports[run.k]
     IN  runs' = [runs EXCEPT ![r] =
                    resume([run EXCEPT
                      !.activeBackports = IF pullStates[bpr.number] = "open" THEN Append(@, bpr) ELSE @,
                      !.k = @ + 1])]
  /\ UNCHANGED <<issues, pullStates>>
  /\ UNCHANGED backportVars

\* updateIssue resolves: the body of the issue that was read is replaced
UpdateIssue(r) ==
  /\ runs[r].pc = "updateIssue"
  /\ issues' = [n \in 1..Len(issues) |->
                  IF issues[n].number = runs[r].issue.number
                    THEN [issues[n] EXCEPT !.body = runs[r].newBody]
                    ELSE issues[n]]
  /\ runs' = [runs EXCEPT ![r].pc = "done",
                          ![r].calls = Append(@, [op |-> "updateIssue", number |-> runs[r].issue.number])]
  /\ UNCHANGED pullStates
  /\ UNCHANGED backportVars

\* createIssue resolves: a new issue with the title of the dashboard
CreateIssue(r) ==
  /\ runs[r].pc = "createIssue"
  /\ issues' = Append(issues, [number |-> Len(issues) + 1, title |-> TITLE, body |-> runs[r].newBody])
  /\ runs' = [runs EXCEPT ![r].pc = "done",
                          ![r].calls = Append(@, [op |-> "createIssue", number |-> 0])]
  /\ UNCHANGED pullStates
  /\ UNCHANGED backportVars

\* the request a run awaits is rejected: the error leaves
\* createOrUpdateDashboard, from updateIssue and createIssue through the
\* catch that throws it again
Reject(r) ==
  /\ runs[r].pc \in {"getPullRequest", "updateIssue", "createIssue"}
  /\ runs' = [runs EXCEPT ![r].pc = "done", ![r].error = TRUE,
                          ![r].calls = IF runs[r].pc = "getPullRequest" THEN @
                                       ELSE Append(@, [op |-> runs[r].pc,
                                                       number |-> runs[r].issue.number])]
  /\ UNCHANGED <<issues, pullStates>>
  /\ UNCHANGED backportVars

InitDashboard ==
  /\ config = CHOOSE c \in Configs : TRUE
  /\ NotStarted
  /\ args = NoCall
  /\ ret = NoReturn
  /\ issues \in StoredIssues
  /\ pullStates \in [{11, 12, 21} -> {"open", "closed"}]
  /\ runs = [r \in Runs |-> Idle]

NextDashboard ==
  \E r \in Runs :
    \/ FindDashboardIssue(r)
    \/ DashboardGetPullRequest(r)
    \/ UpdateIssue(r)
    \/ CreateIssue(r)
    \/ Reject(r)

SpecDashboard == InitDashboard /\ [][NextDashboard]_vars

(***************************************************************************)
(* Calls of Github.mergeStrategy (src/unnamed/part_003) and of             *)
(* Git.cherryPick (src/src/git.ts) on their own, each with the answers that *)
(* the API and git give, as the tests of src/src/test/git.test.ts make     *)
(* them.                                                                   *)
(***************************************************************************)
\* the calls of mergeStrategy: whether merge_commit_sha is a sha, the commit
\* count of the pull request, the number of parents that getParents
\* returns, whether the first parent and the merge commit are associated
\* with the pull request, and whether the first request is rejected
StrategyCalls ==
  [fn : {"mergeStrategy"}, hasSha : BOOLEAN, commits : 1..MaxCommits, parents : 0..MaxParents,
   fp : BOOLEAN, mb : BOOLEAN, api : {"ok", "RequestError"}]

\* a call of mergeStrategy returns or throws; without a sha no request is made
CallMergeStrategy ==
  /\ args.fn = "mergeStrategy"
  /\ ~ret.done
  /\ ret' = [done |-> TRUE,
             value |-> IF args.hasSha /\ args.api # "ok" THEN args.api
                       ELSE mergeStrategy(args.hasSha, args.parents, args.commits, args.fp, args.mb)]
  /\ UNCHANGED <<dashVars, args, config, pc, idx, strategy, commitShasToCherryPick, mergeCommitShas, uncommitedShas, thrown, new_pr,
                 successByTarget, createdPullRequestNumbers, comments, gitLog, pulls,
                 metaLog, outputs, failed, createdPulls>>

\* the calls of cherryPick: the commits, the policy, the exit status of a
\* cherry-pick of all commits and of the cherry-pick of each commit, and
\* the exit status that git commit has (responseCommit of the tests)
CherryPickCalls ==
  UNION {[fn : {"cherryPick"}, shas : {PullCommits(n)},
          conflict_resolution : {"fail", "draft_commit_conflicts"},
          batch : ExitCodes, codes : [1..n -> ExitCodes], commit : ExitCodes] : n \in 0..MaxCommits}

\* a call of cherryPick returns or throws
CallCherryPick ==
  /\ args.fn = "cherryPick"
  /\ ~ret.done
  /\ ret' = [done |-> TRUE,
             value |-> cherryPick(args.shas, args.conflict_resolution, args.batch, args.codes)]
  /\ UNCHANGED <<dashVars, args, config, pc, idx, strategy, commitShasToCherryPick, mergeCommitShas, uncommitedShas, thrown, new_pr,
                 successByTarget, createdPullRequestNumbers, comments, gitLog, pulls,
                 metaLog, outputs, failed, createdPulls>>

InitCalls ==
  /\ config = CHOOSE c \in Configs : TRUE
  /\ NotStarted
  /\ args \in StrategyCalls \cup CherryPickCalls
  /\ ret = NoReturn
  /\ NoDashboard

NextCalls ==
  \/ CallMergeStrategy
  \/ CallCherryPick

SpecCalls == InitCalls /\ [][NextCalls]_vars

(***************************************************************************)
(* Properties of Backport.run                                              *)
(***************************************************************************)
\* the resolved target list
targets == config.target_branches

\* the loop iteration whose calls the logs hold, once the loop was entered
logged == gitLog[1].idx

\* the logs hold the calls of a loop iteration
InIteration == Len(gitLog) > 0 /\ gitLog[1].ref.type = "branch"

\* C1: a failure while processing one target never aborts the loop: when
\* run() has returned after entering the loop, every target of the resolved
\* list was reached.
C1_FailureNeverAbortsLoop ==
  (pc = "done" /\ idx >= 1) => idx >= Len(targets)

\* C2: every error raised while a target is being processed is caught at
\* the target boundary; only errors raised before the loop is entered reach
\* the run-level handler (core.setFailed).
C2_OnlyPreLoopErrorsReachRunLevel ==
  failed # "none" => idx = 0

\* the run resolved a non-empty target list for a merged pull request: the
\* first git command follows right after
Resolved == Len(gitLog) > 0

\* the targets a backport pull request was created for
Backported == {createdPulls[k].idx : k \in 1..Len(createdPulls)}

\* C3: when a run that resolved a non-empty target list for a merged pull
\* request has returned without a run-level failure, was_successful is set,
\* and it is true iff a backport pull request was created for every target.
C3_WasSuccessfulIffAllBackported ==
  (pc = "done" /\ Resolved /\ failed = "none") =>
     /\ outputs.was_successful.set
     /\ outputs.was_successful.value <=> (Backported = 1..Len(targets))

\* C4: created_pull_numbers lists the number of each pull request that a
\* createPR call of the run created, once each and in target order.
C4_CreatedPullNumbersListEveryPull ==
  outputs.created_pull_numbers.set =>
     outputs.created_pull_numbers.value = [k \in 1..Len(createdPulls) |-> createdPulls[k].number]

\* the last git command of the logs
LastGit == gitLog[Len(gitLog)]

\* C5: the pull request of a target is created with draft = true iff
\* cherryPick returned remaining shas, and a partial cherry-pick (stopped at
\* a conflict, with the remaining shas returned) is followed by the push of
\* the same target with nothing recorded and nothing commented.
C5_DraftIffPartial ==
  /\ \A k \in 1..Len(pulls) :
       pulls[k].call.idx = idx => (pulls[k].call.draft <=> ~uncommitedShas.isNull)
  /\ (/\ InIteration
      /\ config.conflict_resolution = "draft_commit_conflicts"
      /\ LastGit.op = "cherry-pick --abort"
      /\ gitLog[Len(gitLog) - 1].exit = ConflictExit) =>
       /\ pc = "push"
       /\ idx = logged
       /\ ~uncommitedShas.isNull
       /\ comments = <<>>
       /\ ~MapHas(successByTarget, targets[logged])

\* a state in which createPR was called for a draft
C5_Witness ==
  /\ Len(pulls) = 1
  /\ pulls[1].call.draft
  /\ pulls[1].res.kind = "ok"
  /\ pc = "recordSuccess"

\* the rejection of createPR that means the pull request exists already
IsExists(res) ==
  res.kind = "RequestError" /\ res.status = UnprocessableStatus /\ res.errors = "exists"

\* C6: a createPR rejected with 422 "A pull request already exists for .."
\* leaves the target neither failed nor successful, posts no comment,
\* propagates no metadata and moves to the next target; any other
\* RequestError of createPR marks the target failed and posts a comment.
C6_AlreadyExistsIsSkipped ==
  \A k \in 1..Len(pulls) :
    LET p == pulls[k]
        t == targets[p.call.idx]
    IN  /\ IsExists(p.res) =>
             /\ ~MapHas(successByTarget, t)
             /\ comments = <<>>
             /\ metaLog = <<>>
             /\ \A n \in 1..Len(createdPulls) : createdPulls[n].idx # p.call.idx
             /\ idx = p.call.idx + 1
             /\ failed = "none"
             /\ IF p.call.idx < Len(targets) THEN pc = "fetchTarget" ELSE pc \in {"createOutput", "done"}
        /\ (p.res.kind = "RequestError" /\ ~IsExists(p.res)) =>
             /\ MapHas(successByTarget, t)
             /\ MapGet(successByTarget, t) = FALSE
             /\ Len(comments) >= 1
             /\ comments[1].kind \in {"createPRFailed", "errorMessage"}
             /\ comments[1].issue = config.pull_number
             /\ metaLog = <<>>

\* the first target was skipped because its pull request exists already and
\* the second target is about to be fetched
C6_Witness ==
  /\ Len(pulls) = 1
  /\ IsExists(pulls[1].res)
  /\ pc = "fetchTarget"
  /\ idx = 2

\* C7: for a source pull request that is not merged the run posts exactly
\* one informational comment on it, runs no git command, processes no
\* target, creates no pull request and ends with no per-target result.
C7_NotMergedOnlyComments ==
  ~config.merged =>
     /\ gitLog = <<>>
     /\ idx = 0
     /\ pulls = <<>>
     /\ createdPulls = <<>>
     /\ metaLog = <<>>
     /\ successByTarget = <<>>
     /\ createdPullRequestNumbers = <<>>
     /\ Len(comments) <= 1
     /\ (pc = "done" /\ failed = "none") =>
          /\ Len(comments) = 1
          /\ comments[1].kind = "notMerged"
          /\ comments[1].issue = config.pull_number

\* the run of a pull request that is not merged has returned
C7_Witness ==
  /\ ~config.merged
  /\ pc = "done"
  /\ failed = "none"
  /\ Len(comments) = 1

\* C8: with an empty resolved target list the run ends silently: the step
\* that finds no target returns with no comment, no git command, no pull
\* request and no run-level failure, and nothing is done after it.
C8_NoTargetsEndsSilently ==
  /\ [][(pc = "findTargetBranches" /\ Len(targets) = 0) =>
          (pc' = "done" /\ failed' = "none" /\ comments' = <<>> /\ gitLog' = <<>>
           /\ pulls' = <<>> /\ createdPulls' = <<>> /\ successByTarget' = <<>>)]_vars
  /\ [][(pc = "done" /\ Len(targets) = 0 /\ config.merged) => UNCHANGED vars]_vars

\* the run of a merged pull request without targets has returned
C8_Witness ==
  /\ config.merged
  /\ Len(targets) = 0
  /\ pc = "done"
  /\ failed = "none"

\* C9: when the fetch of a target fails with GitRefNotFoundError the target
\* is recorded as failed, one comment about the missing branch is posted on
\* the source pull request, no branch, cherry-pick, push or createPR step is
\* run for the target, and with the comment posted the loop continues with
\* the next target.
C9_RefNotFoundFailsTarget ==
  (InIteration /\ gitLog[1].op = "fetch" /\ gitLog[1].exit = RefNotFoundExit) =>
     /\ Len(gitLog) = 1
     /\ pulls = <<>>
     /\ metaLog = <<>>
     /\ \A n \in 1..Len(createdPulls) : createdPulls[n].idx # logged
     /\ MapHas(successByTarget, targets[logged])
     /\ MapGet(successByTarget, targets[logged]) = FALSE
     /\ Len(comments) = 1
     /\ comments[1].kind = "fetchTargetFailure"
     /\ comments[1].issue = config.pull_number
     /\ comments[1].result = "ok" =>
          /\ idx = logged + 1
          /\ failed = "none"
          /\ IF logged < Len(targets) THEN pc = "fetchTarget" ELSE pc \in {"createOutput", "done"}

\* the first target does not exist and the second is about to be fetched
C9_Witness ==
  /\ InIteration
  /\ gitLog[1].exit = RefNotFoundExit
  /\ logged = 1
  /\ comments[1].result = "ok"
  /\ pc = "fetchTarget"
  /\ idx = 2

\* C10: every exception raised outside the per-target handling is caught at
\* the top level and surfaced through core.setFailed: no createComment of
\* run() is rejected without the run being marked failed.
C10_EveryExceptionSetsFailed ==
  \A k \in 1..Len(comments) :
    (~comments[k].awaited /\ comments[k].result = "rejected") => failed # "none"


\* the loop iteration i is over: run() is at a later target, after the loop,
\* or has returned
Over(i) == idx > i \/ pc \in {"createOutput", "done"}

\* every createComment call of the logs was accepted
AllPosted == \A n \in 1..Len(comments) : comments[n].result = "ok"

\* the success comment on the source pull request is among the calls
SuccessCommented ==
  \E n \in 1..Len(comments) :
    /\ comments[n].kind \in {"success", "successWithConflicts"}
    /\ comments[n].issue = config.pull_number

\* the target of a logged createPR call is recorded as successful, the number
\* of its pull request is reported and the success comment was called for
Succeeded(p) ==
  /\ MapHas(successByTarget, targets[p.call.idx])
  /\ MapGet(successByTarget, targets[p.call.idx]) = TRUE
  /\ p.number \in Range(createdPullRequestNumbers)
  /\ SuccessCommented

C17_CommitsFollowMergeStrategy ==
  pc = "findMergeCommits" =>
    LET shas == commitShasToCherryPick
    IN  IF config.cherry_picking # "auto"
          THEN /\ strategy = "none"
               /\ shas = PullCommits(config.commits)
               /\ gitLog = <<GitCall("fetch", PullHeadRef, "origin", 0)>>
          ELSE CASE strategy \in {"mergecommit", "unknown"} ->
                      shas = PullCommits(config.commits)
                 [] strategy = "squashed" ->
                      shas = <<MergeCommitSha>>
                 [] strategy = "rebased" ->
                      /\ Len(shas) = config.commits
                      /\ shas[Len(shas)] = MergeCommitSha
                      /\ \A i \in 1..(Len(shas) - 1) : shas[i] + 1 = shas[i + 1]
                 [] OTHER -> FALSE

\* the commits of a rebased pull request with two commits were found
C17_Witness ==
  /\ pc = "findMergeCommits"
  /\ strategy = "rebased"
  /\ config.commits = 2
  /\ Len(commitShasToCherryPick) = 2

\* C18: when merge commits are found, under merge_commits = skip the list
\* handed to cherryPick is the list of before without the merge commits, in
\* the same order, and no later step changes it; under merge_commits = fail
\* the run ends with one comment on the source pull request and no target is
\* processed.
C18_MergeCommitPolicy ==
  /\ [][(pc = "findMergeCommits" /\ pc' # "done") =>
          commitShasToCherryPick' =
            IF config.merge_commits = "skip"
              THEN SelectSeq(commitShasToCherryPick, LAMBDA sha : sha \notin mergeCommitShas')
              ELSE commitShasToCherryPick]_vars
  /\ [][idx >= 1 => commitShasToCherryPick' = commitShasToCherryPick]_vars
  /\ []((mergeCommitShas # {} /\ config.merge_commits = "fail") =>
          /\ pc = "done"
          /\ idx = 0
          /\ Len(comments) = 1
          /\ comments[1].kind = "mergeCommits"
          /\ comments[1].issue = config.pull_number
          /\ successByTarget = <<>>
          /\ pulls = <<>>
          /\ createdPulls = <<>>)

\* a merge commit was skipped and the other commit is about to be cherry-picked
C18_Witness ==
  /\ config.merge_commits = "skip"
  /\ mergeCommitShas # {}
  /\ pc = "cherryPick"
  /\ Len(commitShasToCherryPick) = 1
  /\ commitShasToCherryPick[1] \notin mergeCommitShas

\* the positions of the git commands op in the logs
Calls(op) == {i \in 1..Len(gitLog) : gitLog[i].op = op}

C20_PartialCommitsConflictOnce ==
  (InIteration /\ idx = logged /\ ~uncommitedShas.isNull) =>
     LET k == Cardinality(Calls("cherry-pick"))
         n == Len(commitShasToCherryPick)
     IN  /\ uncommitedShas.shas = SubSeq(commitShasToCherryPick, k, n)
         /\ \A i \in Calls("cherry-pick") :
              gitLog[i].exit = IF Cardinality({j \in Calls("cherry-pick") : j <= i}) = k
                                 THEN ConflictExit ELSE 0
         /\ Cardinality(Calls("commit")) = 1

LoopSteps ==
  <<"fetchTarget", "checkout", "cherryPick", "push", "createPR">> \o MetaSteps \o
  <<"recordSuccess", "successComment", "conflictComment">>

\* the position of an await in the loop iteration
Rank(p) == CHOOSE k \in 1..Len(LoopSteps) : LoopSteps[k] = p

\* the push of the loop iteration succeeded, or the fetch of the pushed
\* branch after it did
Pushed ==
  \E k \in Calls("push") :
    \/ gitLog[k].exit = 0
    \/ k < Len(gitLog) /\ gitLog[k + 1].op = "fetch" /\ gitLog[k + 1].exit = 0

\* C29: within a target the awaits follow the order fetch, switch,
\* cherry-pick, push, createPR, metadata, success report; the targets are
\* taken one after the other; createPR is called only after the fetch and
\* the switch of the target exited with 0, its cherry-pick threw nothing and
\* its push succeeded or was made good by the fetch of the branch; metadata
\* goes only to a pull request that was created; every call of the iteration
\* belongs to the one target.
C29_StepsInOrderPerTarget ==
  /\ [][(pc \in Range(LoopSteps) /\ pc' \in Range(LoopSteps) /\ pc' # pc) =>
          IF idx' = idx THEN Rank(pc') = Rank(pc) + 1
                        ELSE idx' = idx + 1 /\ pc' = "fetchTarget"]_vars
  /\ [][idx' \in {idx, idx + 1}]_vars
  /\ [](InIteration =>
          /\ logged <= idx
          /\ \A k \in 1..Len(gitLog) : gitLog[k].idx = logged
          /\ \A k \in 1..Len(pulls) : pulls[k].call.idx = logged
          /\ \A k \in 1..Len(metaLog) : metaLog[k].idx = logged
          /\ \A k \in 1..Len(comments) : comments[k].idx = logged
          /\ Len(pulls) <= 1
          /\ pulls # <<>> =>
               /\ gitLog[1].op = "fetch" /\ gitLog[1].exit = 0
               /\ gitLog[2].op = "switch" /\ gitLog[2].exit = 0
               /\ \A k \in Calls("cherry-pick") : 2 < k
               /\ \A k \in Calls("push") : \A j \in Calls("cherry-pick") : j < k
               /\ thrown = NoError
               /\ Pushed
          /\ metaLog # <<>> => pulls # <<>> /\ pulls[1].res.kind = "ok"
          /\ (\E n \in 1..Len(comments) : comments[n].kind \in {"success", "successWithConflicts"}) =>
               pulls # <<>> /\ pulls[1].res.kind = "ok")

\* the second target got its pull request after the first target was
\* reported as backported
C29_Witness ==
  /\ InIteration
  /\ logged = 2
  /\ Len(pulls) = 1
  /\ pulls[1].res.kind = "ok"
  /\ Len(createdPulls) = 2
  /\ createdPulls[1].idx = 1
  /\ metaLog # <<>>
  /\ pc = "successComment"

\* C30: a push that exits with a non-zero status is followed by the fetch of
\* the same branch from the same remote; when that fetch exits with 0 the
\* run goes on to createPR with nothing recorded for the target; otherwise
\* the target is recorded as failed, the comment on the source pull request
\* reports the exit status of the push, and no pull request is created for
\* the target.
C30_FailedPushRecheckedByFetch ==
  /\ [][(pc = "push" /\ gitLog' # gitLog) =>
          LET p == Len(gitLog) + 1
              n == Len(gitLog')
          IN  /\ gitLog'[p].op = "push"
              /\ gitLog'[p].ref = branchname(target)
              /\ IF gitLog'[p].exit = 0
                   THEN n = p /\ pc' = "createPR"
                   ELSE /\ n = p + 1
                        /\ gitLog'[n].op = "fetch"
                        /\ gitLog'[n].ref = gitLog'[p].ref
                        /\ gitLog'[n].remote = gitLog'[p].remote
                        /\ IF gitLog'[n].exit = 0
                             THEN /\ pc' = "createPR"
                                  /\ idx' = idx
                                  /\ successByTarget' = successByTarget
                                  /\ comments' = comments
                             ELSE /\ pc' # "createPR"
                                  /\ MapHas(successByTarget', target)
                                  /\ MapGet(successByTarget', target) = FALSE
                                  /\ Len(comments') > Len(comments)
                                  /\ comments'[Len(comments) + 1].kind = "gitPushFailure"
                                  /\ comments'[Len(comments) + 1].exitCode = gitLog'[p].exit
                                  /\ comments'[Len(comments) + 1].issue = config.pull_number]_vars
  /\ []((InIteration /\ Calls("push") # {} /\ ~Pushed) =>
          pulls = <<>> /\ \A n \in 1..Len(createdPulls) : createdPulls[n].idx # logged)

\* a pull request was created after a push that failed and a fetch of the
\* pushed branch that succeeded
C30_Witness ==
  /\ InIteration
  /\ \E k \in Calls("push") :
       /\ gitLog[k].exit # 0
       /\ k < Len(gitLog)
       /\ gitLog[k + 1].op = "fetch"
       /\ gitLog[k + 1].exit = 0
  /\ Len(pulls) = 1
  /\ pulls[1].res.kind = "ok"

\* C34: a fetch that exits with 0 succeeds, with 128 it throws
\* GitRefNotFoundError with the ref, and with any other status an Error.
\* Of the fetch of a target only the GitRefNotFoundError becomes the comment
\* about the missing branch, which names the target that was fetched; any
\* other failure of it ends the run as failed, without a comment and
\* without a result for the target.  A failed fetch before the loop ends
\* the run as failed whatever its status.
C34_FetchClassifiesByExitStatus ==
  /\ InIteration =>
       /\ gitLog[1].op = "fetch"
       /\ gitLog[1].exit = 0 =>
            /\ \A n \in 1..Len(comments) : comments[n].kind # "fetchTargetFailure"
            /\ Len(gitLog) = 1 => pc = "checkout" /\ failed = "none"
       /\ gitLog[1].exit = RefNotFoundExit =>
            \E n \in 1..Len(comments) :
              comments[n].kind = "fetchTargetFailure" /\ comments[n].idx = logged
       /\ gitLog[1].exit \notin {0, RefNotFoundExit} =>
            /\ Len(gitLog) = 1
            /\ pc = "done"
            /\ failed = "message"
            /\ comments = <<>>
            /\ ~MapHas(successByTarget, targets[logged])
       /\ \A n \in 1..Len(comments) : comments[n].kind = "fetchTargetFailure" =>
            gitLog[1].exit = RefNotFoundExit /\ comments[n].idx = logged
  /\ (Len(gitLog) > 0 /\ ~InIteration) =>
       \A i \in 1..Len(gitLog) : (gitLog[i].op = "fetch" /\ gitLog[i].exit # 0) =>
         /\ pc = "done"
         /\ failed = "message"
         /\ \A n \in 1..Len(comments) : comments[n].kind # "fetchTargetFailure"

\* the fetch of the second target exited with status 1 and the run ended as
\* failed, the first target having been backported or failed before
C34_Witness ==
  /\ InIteration
  /\ logged = 2
  /\ gitLog[1].exit = 1
  /\ pc = "done"
  /\ failed = "message"
  /\ MapHas(successByTarget, targets[1])
  /\ ~MapHas(successByTarget, targets[2])

\* the target a created backport pull request was opened against
PullTarget(p) == targets[p.idx]

\* C35 as stated: in the outputs of a run, every number of
\* created_pull_numbers is the number of a pull request created for a target
\* whose result in was_successful_by_target is true, and every target whose
\* result is true has the number of its pull request in created_pull_numbers.
\* The per-target catch breaks the first half: the target is set to true and
\* its number pushed before the success comment is awaited, and a rejection
\* of that comment sets the target to false with the number left in place.
C35_OutputsAreConsistent ==
  outputs.created_pull_numbers.set =>
    LET sbt == outputs.was_successful_by_target.value
        numbers == outputs.created_pull_numbers.value
    IN  /\ \A n \in 1..Len(numbers) :
             \E k \in 1..Len(createdPulls) :
                /\ createdPulls[k].number = numbers[n]
                /\ MapHas(sbt, PullTarget(createdPulls[k]))
                /\ MapGet(sbt, PullTarget(createdPulls[k])) = TRUE
        /\ \A i \in 1..Len(sbt) :
             sbt[i].result = TRUE =>
               \E k \in 1..Len(createdPulls) :
                  /\ PullTarget(createdPulls[k]) = sbt[i].target
                  /\ createdPulls[k].number \in Range(numbers)

\* C36 as stated: when the loop over the targets has run to completion and
\* the outputs are written, every resolved target has exactly one entry in
\* was_successful_by_target.  A target whose createPR is rejected because the
\* pull request exists already is skipped without an entry.
C36_EveryTargetHasOneEntry ==
  outputs.was_successful_by_target.set =>
    \A t \in Range(targets) :
      Cardinality({i \in 1..Len(outputs.was_successful_by_target.value) :
                     outputs.was_successful_by_target.value[i].target = t}) = 1

(***************************************************************************)
(* Properties of findTargetBranches                                        *)
(***************************************************************************)
\* a call of findTargetBranches has returned
Returned == args.fn = "findTargetBranches" /\ ret.done

\* the label pattern of the call
pattern == args.config.source_labels_pattern

\* C12: the list findTargetBranches returns never contains the head ref of
\* the pull request, whether the branch came from a label or from
\* target_branches.
C12_NeverHeadref ==
  Returned => args.headref \notin Range(ret.value)

\* the head ref was captured from a label and configured as well, and other
\* branches were returned
C12_Witness ==
  /\ Returned
  /\ args.headref \in Range(ret.fromLabels)
  /\ args.headref \in Range(ret.configured)
  /\ ret.value # <<>>

\* the position at which x occurs first in list
First(list, x) == CHOOSE i \in 1..Len(list) : list[i] = x /\ \A j \in 1..(i - 1) : list[j] # x

\* C13: findTargetBranches returns the branches captured from the labels
\* and the branches of target_branches (the head ref left out), each once,
\* in the order in which they occur first in the labels followed by
\* target_branches.
C13_DedupUnionInOrder ==
  Returned =>
    LET all == ret.fromLabels \o ret.configured
        v == ret.value
    IN  /\ Range(v) = Range(all) \ {args.headref}
        /\ \A i \in 1..Len(v) : \A j \in 1..Len(v) :
             i < j => First(all, v[i]) < First(all, v[j])

\* a branch given by a label and by target_branches as well was returned
\* once, after a branch of the labels and before a branch of target_branches
C13_Witness ==
  /\ Returned
  /\ Len(ret.value) >= 3
  /\ \E x \in Range(ret.value) : x \in Range(ret.fromLabels) /\ x \in Range(ret.configured)
  /\ ret.value[1] \notin Range(ret.configured)
  /\ ret.value[Len(ret.value)] \notin Range(ret.fromLabels)

\* C14: labels whose match does not carry exactly one capture group (the
\* pattern has no group, or more than one) contribute no target branch, and
\* without a label pattern labels contribute nothing: the call returns the
\* branches of target_branches alone.
C14_WrongGroupCountContributesNothing ==
  (Returned /\ (pattern.isUndefined \/ pattern.groups # 1)) =>
     /\ ret.fromLabels = <<>>
     /\ Range(ret.value) = Range(ret.configured) \ {args.headref}

\* a label matched a pattern with two groups and contributed nothing
C14_Witness ==
  /\ Returned
  /\ pattern.groups = 2
  /\ Len(args.labels) = 1
  /\ ~exec(pattern, args.labels[1]).isNull
  /\ ret.fromLabels = <<>>

\* the text is in the language of the pattern, anchors left aside: "p"
\* followed by branch characters, at least one unless the group is optional
Accepts(pat, text) ==
  /\ Len(text) >= 1
  /\ text[1] = "p"
  /\ \A k \in 2..Len(text) : text[k] \in BranchChars
  /\ Len(text) >= 2 \/ pat.optional

\* the pattern matches a part of the label (the whole label if anchored)
MatchesSomewhere(pat, label) ==
  \E i \in 1..Len(label) : \E j \in i..Len(label) :
    /\ Accepts(pat, SubSeq(label, i, j))
    /\ pat.anchored => (i = 1 /\ j = Len(label))

\* C15 as stated: a label contributes a target branch only if the pattern
\* matches the full text of the label.
C15_OnlyFullMatchContributes ==
  (Returned /\ Len(args.labels) = 1 /\ ret.fromLabels # <<>>) =>
     Accepts(pattern, args.labels[1])

\* C15 amended: a label contributes a target branch iff the pattern has one
\* capture group and matches somewhere in the label; full text is required
\* by an anchored pattern only.
C15_MatchAnywhereContributes ==
  Returned =>
    /\ Len(ret.fromLabels) =
         Cardinality({k \in 1..Len(args.labels) :
                        /\ ~pattern.isUndefined
                        /\ pattern.groups = 1
                        /\ MatchesSomewhere(pattern, args.labels[k])})
    /\ (pattern.anchored /\ Len(args.labels) = 1 /\ ret.fromLabels # <<>>) =>
         Accepts(pattern, args.labels[1])

\* a label contributed the branch of a match that is only a part of it
C15_Witness ==
  /\ Returned
  /\ Len(args.labels) = 1
  /\ ret.fromLabels # <<>>
  /\ ~Accepts(pattern, args.labels[1])

\* the k-th smallest element of a set of numbers
Nth(S, k) == CHOOSE x \in S : Cardinality({y \in S : y < x}) = k - 1

\* the longest runs of characters of text that are not in seps, in order
Tokens(text, seps) ==
  LET starts == {i \in 1..Len(text) : text[i] \notin seps /\ (i = 1 \/ text[i - 1] \in seps)}
      End(i) == CHOOSE j \in i..Len(text) :
                  /\ \A k \in i..j : text[k] \notin seps
                  /\ j = Len(text) \/ text[j + 1] \in seps
  IN  [k \in 1..Cardinality(starts) |-> SubSeq(text, Nth(starts, k), End(Nth(starts, k)))]

\* C16 as stated: the branches of target_branches are its non-blank tokens
\* delimited by whitespace of any kind.
C16_SplitOnAnyWhitespace ==
  (Returned /\ ~args.config.target_branches.isUndefined) =>
     ret.configured = Tokens(args.config.target_branches.text, Whitespace)

\* u is t without the whitespace at its ends
IsTrimOf(u, t) ==
  \E i \in 1..Len(t) : \E j \in i..Len(t) :
    /\ u = SubSeq(t, i, j)
    /\ t[i] \notin Whitespace
    /\ t[j] \notin Whitespace
    /\ \A k \in 1..Len(t) : (k < i \/ k > j) => t[k] \in Whitespace

\* C16 amended: target_branches is split at space characters only; each
\* piece is stripped of the whitespace at its ends and blank pieces are
\* discarded, so other whitespace between two names does not separate them.
C16_SplitOnSpaces ==
  (Returned /\ ~args.config.target_branches.isUndefined) =>
     LET pieces == Tokens(args.config.target_branches.text, {" "})
         kept == SelectSeq(pieces, LAMBDA t : \E k \in 1..Len(t) : t[k] \notin Whitespace)
     IN  /\ Len(ret.configured) = Len(kept)
         /\ \A k \in 1..Len(kept) : IsTrimOf(ret.configured[k], kept[k])

\* a tab between two names did not separate them, and a tab at the end of a
\* piece was stripped
C16_Witness ==
  /\ Returned
  /\ args.config.target_branches.text = <<"a", "\t", "a", "\t">>
  /\ ret.configured = <<(<<"a", "\t", "a">>)>>

(***************************************************************************)
(* Properties of parseDashboard and renderDashboard                        *)
(***************************************************************************)
\* the entries that the lines of a body stand for: a header line opens an
\* entry, an item line adds a backport to the entry opened last, and
\* every other line, and an item line before the first header, stands for
\* nothing
Expected(rest) ==
  LET F[i \in 0..Len(rest)] ==
        IF i = 0 THEN <<>>
        ELSE LET entries == F[i - 1]
             IN  IF rest[i].kind = "header"
                   THEN Append(entries, [originalPrNumber |-> rest[i].number,
                                         originalPrTitle |-> rest[i].name, backports |-> <<>>])
                 ELSE IF rest[i].kind = "item" /\ entries # <<>>
                   THEN [entries EXCEPT ![Len(entries)].backports =
                           Append(@, [branch |-> rest[i].name, number |-> rest[i].number])]
                 ELSE entries
  IN  F[Len(rest)]

\* C27: what parseDashboard returns for a body is the
\* unsupported-version result or the list of the entries that the
\* well-formed lines stand for, in their order: the list when the first line
\* holds the marker of version 1, the unsupported-version result when it
\* holds no marker or the marker of version 0.  Malformed headers,
\* malformed items and numbers that are not numbers add nothing and do not
\* end the parse.
C27_ParseIsTotal ==
  (args.fn = "parseDashboard" /\ ret.done) =>
     /\ ret.value.isUndefined \in BOOLEAN
     /\ ret.value.isUndefined => ret.value = Undefined
     /\ ~ret.value.isUndefined => ret.value.entries = Expected(args.rest)
     /\ args.first.version = 1 => ~ret.value.isUndefined
     /\ args.first.version < 1 => ret.value.isUndefined

\* a body of version 1 with a malformed line before a header line was
\* parsed to the one entry of the header
C27_Witness ==
  /\ args.fn = "parseDashboard"
  /\ ret.done
  /\ args.first.version = 1
  /\ Len(args.rest) = 2
  /\ args.rest[1] \in MalformedLines
  /\ args.rest[2] \in HeaderLines
  /\ ~ret.value.isUndefined
  /\ Len(ret.value.entries) = 1

\* the round trip of renderDashboard and parseDashboard is done
RoundTrip == args.fn = "renderDashboard" /\ ret.done /\ ret.parsed # Pending

PlainTitle(title) == title # <<>> /\ trim(title) = title /\ \A i \in 1..Len(title) : title[i] # "\n"

\* the entries with every branch name as it is rendered
Escaped(entries) ==
  [i \in 1..Len(entries) |->
     [entries[i] EXCEPT !.backports =
        [k \in 1..Len(entries[i].backports) |->
           [entries[i].backports[k] EXCEPT !.branch = sanitizedBranch(@)]]]]

Completed(r) == runs[r].pc = "done" /\ ~runs[r].error /\ runs[r].newBody # <<>>

\* the numbers of a list of backports
Numbers(backports) == {backports[k].number : k \in 1..Len(backports)}

\* the numbers of the backports that a list of entries holds
Links(entries) == UNION {Numbers(entries[i].backports) : i \in 1..Len(entries)}

\* C21: a run that reads a dashboard issue whose first line does not hold
\* the marker of version 1 (no marker, or the marker of another version)
\* makes no call of updateIssue or createIssue and renders no body.
C21_OnlyVersionOneIsWritten ==
  \A r \in Runs :
    (runs[r].pc = "done" /\ runs[r].issue.found) =>
       LET line == lines(runs[r].issue.body)[1]
           v == version(line)
       IN  (versionMatch(line).isNull \/ v.isNaN \/ v.value # 1) =>
             /\ runs[r].calls = <<>>
             /\ runs[r].newBody = <<>>

\* C22: the body that a run renders from a supported dashboard holds no
\* link that the dashboard listed and whose pull request is not open (apart
\* from the backports the run itself adds), also when other links of the
\* entry are open, and no entry that the dashboard listed and that has no
\* open link (apart from the entry of the source pull request of the run).
C22_ClosedLinksAreDropped ==
  \A r \in Runs :
    (Completed(r) /\ runs[r].issue.found) =>
       LET before == parseDashboard(runs[r].issue.body).entries
           own == Numbers(runs[r].backportPRs)
       IN  /\ \A i \in 1..Len(before) : \A k \in 1..Len(before[i].backports) :
                LET number == before[i].backports[k].number
                IN  (pullStates[number] # "open" /\ number \notin own) =>
                      number \notin Links(runs[r].entries)
           /\ \A i \in 1..Len(before) :
                ( /\ \A k \in 1..Len(before[i].backports) :
                       pullStates[before[i].backports[k].number] # "open"
                  /\ before[i].originalPrNumber # runs[r].originalPR.number ) =>
                  \A n \in 1..Len(runs[r].entries) :
                    runs[r].entries[n].originalPrNumber # before[i].originalPrNumber

\* C23: the entries that a run renders are the entries left by the check of
\* the pull request states, with the entry of the source pull request
\* found by its number (the first one) or added at the end with the title
\* of the pull request, and with the backports of the run that this entry
\* did not list by number pushed after the ones it listed, each once; the
\* other entries are the same.
C23_FindOrCreateAndAppendNew ==
  \A r \in Runs :
    runs[r].newBody # <<>> =>
      LET run == runs[r]
          listed == {n \in 1..Len(run.checked) :
                       run.checked[n].originalPrNumber = run.originalPR.number}
          at == IF listed = {} THEN Len(run.checked) + 1
                ELSE CHOOSE n \in listed : \A m \in listed : n <= m
          old == IF listed = {} THEN <<>> ELSE run.checked[at].backports
          new == run.entries[at].backports
      IN  /\ Len(run.entries) = IF listed = {} THEN Len(run.checked) + 1 ELSE Len(run.checked)
          /\ \A n \in 1..Len(run.checked) : n # at => run.entries[n] = run.checked[n]
          /\ run.entries[at].originalPrNumber = run.originalPR.number
          /\ run.entries[at].originalPrTitle =
               IF listed = {} THEN run.originalPR.title ELSE run.checked[at].originalPrTitle
          /\ SubSeq(new, 1, Len(old)) = old
          /\ \A k \in (Len(old) + 1)..Len(new) :
               /\ new[k].number \notin Numbers(SubSeq(new, 1, k - 1))
               /\ \E n \in 1..Len(run.backportPRs) :
                    new[k] = [number |-> run.backportPRs[n].number,
                              branch |-> run.backportPRs[n].branch]
          /\ Numbers(new) = Numbers(old) \cup Numbers(run.backportPRs)

\* a run for pull request 1 with the backports 11 and 12 found the entries
\* of pull request 1, listing 11, and of pull request 2, and added 12 only
C23_Witness ==
  \E r \in Runs :
    /\ Completed(r)
    /\ runs[r].originalPR.number = 1
    /\ Len(runs[r].backportPRs) = 2
    /\ Len(runs[r].checked) = 2
    /\ runs[r].checked[1].originalPrNumber = 1
    /\ Len(runs[r].checked[1].backports) = 1
    /\ runs[r].checked[1].backports[1].number = 11
    /\ runs[r].checked[2].originalPrNumber = 2
    /\ Len(runs[r].entries) = 2
    /\ Len(runs[r].entries[1].backports) = 2
    /\ runs[r].entries[1].backports[2].number = 12
    /\ runs[r].entries[2] = runs[r].checked[2]

\* C25: a run makes no call of updateIssue or createIssue before its last
\* step; a run that returned without an error from a dashboard it could
\* parse made no call when it found an issue whose body is the rendered
\* body, one call of updateIssue on that issue when the body differs, and
\* one call of createIssue and none of updateIssue when it found no issue.
C25_WritesOnlyWhenNeeded ==
  \A r \in Runs :
    /\ runs[r].pc # "done" => runs[r].calls = <<>>
    /\ Len(runs[r].calls) <= 1
    /\ Completed(r) =>
         /\ (runs[r].issue.found /\ runs[r].issue.body = runs[r].newBody) =>
              runs[r].calls = <<>>
         /\ (runs[r].issue.found /\ runs[r].issue.body # runs[r].newBody) =>
              runs[r].calls = <<[op |-> "updateIssue", number |-> runs[r].issue.number]>>
         /\ ~runs[r].issue.found =>
              runs[r].calls = <<[op |-> "createIssue", number |-> 0]>>

\* a run found the dashboard with the body it rendered itself, listing a
\* backport, and returned without a call
C25_Witness ==
  \E r \in Runs :
    /\ Completed(r)
    /\ runs[r].issue.found
    /\ runs[r].issue.body = runs[r].newBody
    /\ Links(runs[r].entries) # {}
    /\ runs[r].calls = <<>>

\* two runs each read the issues before the other one wrote, and both wrote
Collided(a, b) ==
  /\ a # b
  /\ Completed(a) /\ runs[a].calls # <<>>
  /\ Completed(b) /\ runs[b].calls # <<>>
  /\ a \notin runs[b].after
  /\ b \notin runs[a].after

\* C26: when two runs collided and a run that started after both of them
\* has returned, the dashboard lists every backport that one of the two
\* added and that is open.
C26_CollisionIsSelfCorrecting ==
  \A a, b, c \in Runs :
    ( /\ Collided(a, b)
      /\ Completed(c)
      /\ {a, b} \subseteq runs[c].after
      /\ \A q \in Runs \ {a, b, c} :
           runs[q].pc = "getIssues" \/ q \in runs[a].after \cap runs[b].after ) =>
      LET listed == Links(parseDashboard(findDashboardIssue(issues).body).entries)
      IN  \A n \in Numbers(runs[a].backportPRs) \cup Numbers(runs[b].backportPRs) :
            pullStates[n] = "open" => n \in listed

(***************************************************************************)
(* Properties of Github.mergeStrategy                                      *)
(***************************************************************************)
\* C31: without a merge commit sha the strategy is unknown; with more than
\* one parent it is mergecommit, also for a pull request of one commit;
\* otherwise a pull request of one commit is squashed; otherwise, with a
\* first parent, it is rebased when the first parent and the merge commit
\* are associated with the pull request, squashed when only the merge
\* commit is, and unknown in every other case.
C31_StrategyPrecedence ==
  (args.fn = "mergeStrategy" /\ ret.done /\ (args.api = "ok" \/ ~args.hasSha)) =>
     /\ ~args.hasSha => ret.value = "unknown"
     /\ (args.hasSha /\ args.parents > 1) => ret.value = "mergecommit"
     /\ (args.hasSha /\ args.parents <= 1 /\ args.commits = 1) => ret.value = "squashed"
     /\ (args.hasSha /\ args.parents = 1 /\ args.commits # 1) =>
          ret.value = IF args.fp /\ args.mb THEN "rebased"
                      ELSE IF ~args.fp /\ args.mb THEN "squashed"
                      ELSE "unknown"

\* a pull request of one commit whose merge commit has two parents was
\* classified as mergecommit
C31_Witness ==
  /\ args.fn = "mergeStrategy"
  /\ ret.done
  /\ args.hasSha /\ args.api = "ok"
  /\ args.parents = 2
  /\ args.commits = 1
  /\ ret.value = "mergecommit"

\* C38: a call of mergeStrategy whose requests are answered returns one of
\* the four strategies, whatever the number of parents of the merge commit
\* and the commit count of the pull request.
C38_StrategyIsTotal ==
  (args.fn = "mergeStrategy" /\ ret.done /\ (args.api = "ok" \/ ~args.hasSha)) =>
     ret.value \in {"squashed", "rebased", "mergecommit", "unknown"}

(***************************************************************************)
(* Properties of Git.cherryPick                                            *)
(***************************************************************************)
\* the commits of a call of cherryPick whose cherry-pick does not exit with 0
Failing == {i \in 1..Len(args.shas) : args.codes[i] # 0}

\* the cherry-pick commands among the git commands that the call ran
Picks == {i \in 1..Len(ret.value.calls) : ret.value.calls[i][1] = "cherry-pick"}

\* C32: under draft_commit_conflicts cherryPick throws exactly when the
\* cherry-pick of a commit exits with a status other than 0 and 1, or exits
\* with 1 and git commit fails; the cherry-pick was aborted before.
C32_DraftPolicyThrows ==
  (args.fn = "cherryPick" /\ ret.done /\ args.conflict_resolution = "draft_commit_conflicts") =>
     LET first == CHOOSE i \in Failing : \A j \in Failing : i <= j
     IN  /\ ret.value.result = "throw" <=>
              (Failing # {} /\ (args.codes[first] # ConflictExit \/ args.commit # 0))
         /\ ret.value.result = "throw" =>
              ret.value.calls[Len(ret.value.calls)][1] = "cherry-pick --abort"

\* C33: cherryPick returns null exactly when the one cherry-pick of all
\* commits (policy fail) or the cherry-pick of every commit (policy
\* draft_commit_conflicts) exits with 0.  One by one, the j-th cherry-pick
\* command is the one of the j-th commit and there are as many commands as
\* commits up to the first that does not exit with 0; under fail there is
\* one command.  Only the last cherry-pick command can have failed.
C33_NullOnlyWhenAllApplied ==
  (args.fn = "cherryPick" /\ ret.done) =>
     LET calls == ret.value.calls
         first == CHOOSE i \in Failing : \A j \in Failing : i <= j
         nth(j) == CHOOSE i \in Picks : Cardinality({h \in Picks : h <= i}) = j
     IN  /\ ret.value.result = "null" <=>
              IF args.conflict_resolution = "fail" THEN args.batch = 0 ELSE Failing = {}
         /\ args.conflict_resolution = "fail" =>
              /\ Cardinality(Picks) = 1
              /\ calls[1] = <<"cherry-pick", args.batch>>
         /\ args.conflict_resolution # "fail" =>
              /\ Cardinality(Picks) = IF Failing = {} THEN Len(args.shas) ELSE first
              /\ \A j \in 1..Cardinality(Picks) : calls[nth(j)][2] = args.codes[j]
         /\ \A i \in Picks : calls[i][2] # 0 => \A j \in Picks : j <= i

\* the first of two commits conflicted: one cherry-pick command ran and
\* both commits are returned
C33_Witness ==
  /\ args.fn = "cherryPick"
  /\ ret.done
  /\ args.conflict_resolution = "draft_commit_conflicts"
  /\ Len(args.shas) = 2
  /\ args.codes[1] = ConflictExit
  /\ args.codes[2] = 0
  /\ Cardinality(Picks) = 1
  /\ ret.value.result = "shas"
  /\ ret.value.shas = args.shas

\* C37 as stated: a body that a run of createOrUpdateDashboard has written,
\* by updateIssue or by createIssue, renders no entry without a backport
\* link.  A call with no backport pull requests for a source pull request
\* that has no entry pushes an entry with no backports and writes it.
C37_NoEmptyEntryIsWritten ==
  \A r \in Runs :
    runs[r].calls # <<>> =>
      \A n \in 1..Len(runs[r].entries) : runs[r].entries[n].backports # <<>>

\* run b repeats the call of run a: it was called with the same source pull
\* request and the same backports after a had returned without an error, and
\* every other run had returned before a was called or had not returned when
\* b was called, so that nobody else wrote the issue in between
Repeats(a, b) ==
  /\ a # b
  /\ runs[a].pc = "done"
  /\ ~runs[a].error
  /\ a \in runs[b].after
  /\ runs[b].originalPR = runs[a].originalPR
  /\ runs[b].backportPRs = runs[a].backportPRs
  /\ \A q \in Runs \ {a, b} : q \in runs[a].after \/ q \notin runs[b].after

\* the run is about to call updateIssue or createIssue, or has called it
Writes(r) == runs[r].pc \in {"updateIssue", "createIssue"} \/ runs[r].calls # <<>>

====
